---- MODULE Spec2Model ----
(***************************************************************************)
(* Webhook reconciliation, idempotency and payment creation of the         *)
(* better-auth Mercado Pago plugin.                                        *)
(*                                                                         *)
(* The repository holds two variants of the plugin: the full one           *)
(* (src/src/server.ts) and the payments-only one (src/unnamed/part_005).   *)
(* Both share security.ts (src/unnamed/part_004).  The variable `variant`  *)
(* says which plugin the process runs; it is fixed at construction.        *)
(*                                                                         *)
(* Handlers are async functions on a single-threaded event loop: the code  *)
(* between two awaits runs atomically, so each action below is one such    *)
(* stretch and every await is a position (pc) of the request.              *)
(*                                                                         *)
(* Amounts are integers in units of the tolerance of validatePaymentAmount *)
(* (0.01 currency units, CentsPerUnit to the unit).  Times are             *)
(* milliseconds, as Date.now().                                            *)
(***************************************************************************)
EXTENDS Integers, Sequences, FiniteSets, TLC

\* ------------------------------------------------------------------ bounds
MaxDeliveries == 2      \* webhook deliveries in one behaviour
MaxCalls == 2           \* createPayment calls in one behaviour
MaxTicks == 1           \* clock advances in one behaviour
MaxNow == 4             \* the latest time the stores of security.ts are called at directly
MaxExcess == 2          \* direct rate limiter calls made beyond the limit in one window

\* ------------------------------------------------------- program constants
WebhookMaxAttempts == 1000
WebhookWindowMs == 60000
WebhookTtlMs == 86400000
CreateMaxAttempts == 10
CreateWindowMs == 60000
DefaultTtlMs == 86400000
AmountTolerance == 1
MaxAmount == 999999999
CentsPerUnit == 100

\* -------------------------------------------------------- input universes
Variants == {"server", "index"}
\* the ids the provider gives its preferences, in the order it creates them
ProviderIds == << "p1", "p2", "p3", "p4" >>
PaymentIds == {"p1"}
\* the ids a new preference can get: the provider draws preference ids and payment
\* ids apart; "p1" stands for an id that is also a payment's
PreferenceIds == {"p1", "p2"}
PreapprovalIds == {"s1"}
ProviderStatuses == {"approved", "in_process", ""}
TxAmounts == {100, 101, 102}
\* notifications: << type, data.id >>, "" for a field the body does not carry
Notifications ==
    { << "payment", "p1" >>, << "payment", "" >>, << "merchant_order", "p1" >>,
      << "bogus", "p1" >>, << "", "p1" >>, << "authorized_payment", "p1" >> }

Ack == "received"

\* ---------------------------------------------------------------- security
\* isValidWebhookTopic
VALID_WEBHOOK_TOPICS ==
    { "payment", "merchant_order", "subscription_preapproval",
      "subscription_preapproval_plan", "subscription_authorized_payment",
      "point_integration_wh", "topic_claims_integration_wh",
      "topic_merchant_order_wh", "delivery_cancellation" }

isValidWebhookTopic(topic) == topic \in VALID_WEBHOOK_TOPICS

Abs(x) == IF x < 0 THEN -x ELSE x

validatePaymentAmountNoCheck(requestedAmount, mpPaymentAmount) == TRUE

\* validatePaymentAmount, default tolerance
validatePaymentAmount(requestedAmount, mpPaymentAmount) ==
    Abs(requestedAmount - mpPaymentAmount) <= AmountTolerance

RateAllowedSameWindow(att, key, maxAttempts, windowMs, t) ==
    key \notin DOMAIN att \/ att[key].count < maxAttempts

\* RateLimiter.check: the verdict
RateAllowed(att, key, maxAttempts, windowMs, t) ==
    IF key \notin DOMAIN att \/ t > att[key].resetAt
    THEN TRUE
    ELSE att[key].count < maxAttempts

RateAfterNoCount(att, key, maxAttempts, windowMs, t) ==
    IF key \notin DOMAIN att \/ t > att[key].resetAt
    THEN [k \in DOMAIN att \cup {key} |->
            IF k = key THEN [count |-> 1, resetAt |-> t + windowMs] ELSE att[k]]
    ELSE att

\* RateLimiter.check: the attempts map after the call
RateAfter(att, key, maxAttempts, windowMs, t) ==
    IF key \notin DOMAIN att \/ t > att[key].resetAt
    THEN [k \in DOMAIN att \cup {key} |->
            IF k = key THEN [count |-> 1, resetAt |-> t + windowMs] ELSE att[k]]
    ELSE IF att[key].count >= maxAttempts
         THEN att
         ELSE [att EXCEPT ![key].count = @ + 1]

IdemHasNever(st, key, t) == FALSE

\* IdempotencyStore.get: is a live entry returned
IdemHas(st, key, t) == key \in DOMAIN st /\ ~(t > st[key].expiresAt)

\* IdempotencyStore.get: the value returned when IdemHas
IdemGet(st, key, t) == st[key].result

\* IdempotencyStore.get: the store after the call (a missing or expired key is deleted)
IdemAfterGet(st, key, t) ==
    IF IdemHas(st, key, t) THEN st ELSE [k \in DOMAIN st \ {key} |-> st[k]]

IdemSetDropped(st, key, result, ttlMs, t) == st

IdemSetNoTtl(st, key, result, ttlMs, t) ==
    [k \in DOMAIN st \cup {key} |->
        IF k = key THEN [result |-> result, expiresAt |-> t] ELSE st[k]]

\* IdempotencyStore.set
IdemSet(st, key, result, ttlMs, t) ==
    [k \in DOMAIN st \cup {key} |->
        IF k = key THEN [result |-> result, expiresAt |-> t + ttlMs] ELSE st[k]]

IdemCleanupAtExpiry(st, t) == [k \in {x \in DOMAIN st : t < st[x].expiresAt} |-> st[k]]

\* IdempotencyStore.cleanup
IdemCleanup(st, t) == [k \in {x \in DOMAIN st : ~(t > st[x].expiresAt)} |-> st[k]]

\* RateLimiter.cleanup
RateCleanup(att, t) == [k \in {x \in DOMAIN att : ~(t > att[x].resetAt)} |-> att[k]]

\* -------------------------------------------------------------- signatures
\* Header values are sequences of characters.  A header the request does not carry
\* is Null (headers.get returns null); what find / optional chaining yield for a
\* missing part is Undefined.
Null == << "null" >>
Undefined == << "undefined" >>

\* the characters of the strings the requests use
Chars(str) ==
    CASE str = "p1" -> << "p", "1" >>
      [] str = "p2" -> << "p", "2" >>
      [] str = "r1" -> << "r", "1" >>
      [] str = "r-2" -> << "r", "-", "2" >>
      [] str = "k1" -> << "k", "1" >>
      [] str = "k2" -> << "k", "2" >>
      [] str = "1" -> << "1" >>
      [] str = "17" -> << "1", "7" >>
      [] str = "ts=" -> << "t", "s", "=" >>
      [] str = "v1=" -> << "v", "1", "=" >>
      [] str = ",v1=" -> << ",", "v", "1", "=" >>
      [] str = "id:" -> << "i", "d", ":" >>
      [] str = ";request-id:" ->
            << ";", "r", "e", "q", "u", "e", "s", "t", "-", "i", "d", ":" >>
      [] str = ";ts:" -> << ";", "t", "s", ":" >>
      [] str = "garbage" -> << "g", "a", "r", "b", "a", "g", "e" >>
      [] OTHER -> << >>

\* String.prototype.split with a one-character separator
RECURSIVE Split(_, _)
Split(str, sep) ==
    LET at == { i \in 1..Len(str) : str[i] = sep }
    IN  IF at = {} THEN << str >>
        ELSE LET i == CHOOSE x \in at : \A y \in at : x <= y
             IN  << SubSeq(str, 1, i - 1) >> \o Split(SubSeq(str, i + 1, Len(str)), sep)

\* String.prototype.startsWith
StartsWith(str, prefix) ==
    Len(str) >= Len(prefix) /\ SubSeq(str, 1, Len(prefix)) = prefix

\* parts.find((p) => p.startsWith(prefix))?.split("=")[1]
Component(parts, prefix) ==
    LET hits == { i \in 1..Len(parts) : StartsWith(parts[i], prefix) }
    IN  IF hits = {} THEN Undefined
        ELSE Split(parts[CHOOSE i \in hits : \A j \in hits : i <= j], "=")[2]

\* `!value` for a string that may be null or undefined
Falsy(str) == str = Null \/ str = Undefined \/ str = << >>

\* the manifest the signature is computed over
Manifest(dataId, xRequestId, ts) ==
    Chars("id:") \o dataId \o Chars(";request-id:") \o xRequestId \o Chars(";ts:")
        \o ts \o << ";" >>

DigestLen == 64
HexChars == << "0", "1", "2", "3", "4", "5", "6", "7", "8", "9", "a", "b", "c", "d",
               "e", "f" >>

\* character codes, for the digest
Alphabet ==
    << "0", "1", "2", "3", "4", "5", "6", "7", "8", "9", "a", "b", "c", "d", "e", "f",
       "g", "i", "k", "p", "q", "r", "s", "t", "u", "v", ":", ";", "-", "=", "," >>

CharCode(ch) == CHOOSE i \in 1..Len(Alphabet) : Alphabet[i] = ch

RECURSIVE WeightedSum(_, _)
WeightedSum(str, n) ==
    IF n = 0 THEN 0 ELSE WeightedSum(str, n - 1) + (2 * n + 1) * CharCode(str[n])

\* crypto.createHmac("sha256", secret).update(manifest).digest("hex"): a keyed digest
\* of DigestLen lowercase hex characters.  SHA-256 itself is not computed: the
\* digest is a fixed function of the secret and the manifest, which is all the
\* comparison relies on.
HmacSha256Hex(secret, manifest) ==
    LET seed == 7 * WeightedSum(secret, Len(secret)) + WeightedSum(manifest, Len(manifest))
    IN  [ i \in 1..DigestLen |-> HexChars[((seed + i * (seed \div 16 + i)) % 16) + 1] ]

\* a character outside ASCII (U+00E9), written as one element of a string
EAcute == "e-acute"

\* Buffer.from(str).length: the UTF-8 length (a character outside ASCII takes 2 bytes)
ByteLength(str) == Len(str) + Cardinality({ i \in 1..Len(str) : str[i] = EAcute })

\* verifyWebhookSignature: "true", "false", or "throws" (crypto.timingSafeEqual throws
\* a RangeError when its buffers differ in byte length)
verifyWebhookSignature(xSignature, xRequestId, dataId, secret) ==
    IF Falsy(xSignature) \/ Falsy(xRequestId) THEN "false"
    ELSE LET parts == Split(xSignature, ",")
             ts == Component(parts, Chars("ts="))
             hash == Component(parts, Chars("v1="))
         IN  IF Falsy(ts) \/ Falsy(hash) THEN "false"
             ELSE LET expectedHash ==
                          HmacSha256Hex(secret, Manifest(dataId, xRequestId, ts))
                  IN  IF ByteLength(hash) # ByteLength(expectedHash) THEN "throws"
                      ELSE IF hash = expectedHash THEN "true"
                      ELSE "false"

\* ------------------------------------------------------------------- state
\* ---------------------------------------------------------------- metadata
\* the longest string value sanitizeMetadata keeps whole
MaxStringLength == 5000

\* JSON values.  A string is its content's name and its length (a prefix of a
\* content is that content at a smaller length); an array's items are values; an
\* object's items are values carrying their keys, in insertion order.
JsonValue(kind, tag, len, items) ==
    [ kind |-> kind, key |-> "", tag |-> tag, len |-> len, items |-> items ]

JsonString(tag, len) == JsonValue("string", tag, len, << >>)
JsonNumber(n) == JsonValue("number", "", n, << >>)
JsonNull == JsonValue("null", "", 0, << >>)
JsonArray(items) == JsonValue("array", "", 0, items)
Entry(key, value) == [value EXCEPT !.key = key]
JsonObject(entries) == JsonValue("object", "", 0, entries)

\* Object.entries(value): an object's own entries; of an array, its items under
\* their indices "0", "1", ...
ObjectEntries(value) ==
    IF value.kind = "array"
    THEN [ j \in 1..Len(value.items) |-> Entry(ToString(j - 1), value.items[j]) ]
    ELSE value.items

PollutingKeys == { "__proto__", "constructor", "prototype" }

\* typeof value === "object" && value !== null
IsObjectType(value) == value.kind \in { "object", "array" }

RECURSIVE SelectEntries(_)
\* the entries the loop does not skip
SelectEntries(entries) ==
    IF entries = << >> THEN << >>
    ELSE IF Head(entries).key \in PollutingKeys THEN SelectEntries(Tail(entries))
    ELSE << Head(entries) >> \o SelectEntries(Tail(entries))

RECURSIVE sanitizeMetadata(_)
sanitizeMetadata(metadata) ==
    LET kept == SelectEntries(ObjectEntries(metadata))
    IN  [ JsonObject([ j \in 1..Len(kept) |->
            IF kept[j].kind = "string" /\ kept[j].len > MaxStringLength
            THEN [kept[j] EXCEPT !.len = MaxStringLength]
            ELSE IF IsObjectType(kept[j])
            THEN sanitizeMetadata(kept[j])
            ELSE kept[j] ])
          EXCEPT !.key = metadata.key ]

VARIABLES
    variant,      \* which plugin runs: "server" (server.ts) or "index" (part_005)
    options,      \* plugin options: which of webhookSecret / onPaymentUpdate are set
    now,          \* Date.now()
    ticks,        \* how often the clock has advanced
    store,        \* idempotencyStore.store: key -> [result, expiresAt]
    attempts,     \* rateLimiter.attempts: key -> [count, resetAt]
    nextId,       \* ids handed out so far by generateId() and the adapter
    payments,     \* table mercadoPagoPayment, in insertion order
    splits,       \* table mercadoPagoMarketplaceSplit
    customers,    \* table mercadoPagoCustomer
    mpPayments,   \* the provider's payments: id -> payment
    mpPrefs,      \* the provider's preferences, in creation order
    mpCalls,      \* provider calls made so far, by kind
    wh,           \* webhook requests: delivery -> position and locals
    cp,           \* createPayment requests: call -> position and locals
    subscriptions,   \* table mercadoPagoSubscription, in insertion order
    mpPreapprovals,  \* the provider's preapprovals: id -> preapproval
    csub,         \* createSubscription requests: call -> position and locals
    probe,        \* direct calls of security.ts: the arguments, the outcome, the history
    cancel        \* cancelSubscription requests: call -> position and locals

\* the state of the subscription flow
subsVars == << subscriptions, mpPreapprovals, csub >>

vars == << variant, options, now, ticks, store, attempts, nextId, payments, splits,
           customers, mpPayments, mpPrefs, mpCalls, wh, cp, subscriptions,
           mpPreapprovals, csub, probe, cancel >>

Deliveries == 1..MaxDeliveries
Calls == 1..MaxCalls
SubCalls == { 1 }

\* findOne's null, a payment record that is no record
NoRecord ==
    [ id |-> 0, userId |-> "", mercadoPagoPaymentId |-> "", preferenceId |-> "",
      externalReference |-> 0, status |-> "", amount |-> 0, currency |-> "",
      createdAt |-> 0, updatedAt |-> 0 ]

\* a payment the provider does not have
NoMpPayment ==
    [ exists |-> FALSE, status |-> "", transaction_amount |-> 0, external_reference |-> 0 ]

\* findOne's null on mercadoPagoSubscription
NoSubscription ==
    [ id |-> 0, userId |-> "", mercadoPagoSubscriptionId |-> "", planId |-> "",
      status |-> "", reason |-> "", createdAt |-> 0, updatedAt |-> 0 ]

\* a preapproval the provider does not have
NoMpPreapproval ==
    [ exists |-> FALSE, status |-> "", reason |-> "", external_reference |-> 0 ]

\* the result `true` the webhook stores under its key
Processed == [ checkoutUrl |-> "", preferenceId |-> "", payment |-> NoRecord ]

IdleDelivery ==
    [ pc |-> "idle", type |-> "", dataId |-> "", sig |-> FALSE, sigThrew |-> FALSE,
      at |-> 0, marked |-> FALSE, threw |-> FALSE,
      fetchOk |-> FALSE, mp |-> NoMpPayment, existing |-> NoRecord,
      pre |-> NoMpPreapproval, sub |-> NoSubscription,
      updated |-> FALSE, called |-> FALSE, cbPayment |-> NoRecord, cbStatus |-> "",
      cbSub |-> NoSubscription, resp |-> "" ]

\* a createSubscription request that was not made yet
IdleSubCall ==
    [ pc |-> "idle", user |-> "", planId |-> "", reason |-> "", autoRecurring |-> FALSE,
      subscriptionId |-> 0, ref |-> 0, pre |-> "", subscription |-> NoSubscription,
      resp |-> "" ]

\* a cancelSubscription request that was not made yet
IdleCancel ==
    [ pc |-> "idle", user |-> "", subscriptionId |-> 0, subscription |-> NoSubscription,
      resp |-> "" ]

CancelCalls == { 1 }

\* no direct call of security.ts is being examined
NoProbe == [ kind |-> "none" ]

IdleCall ==
    [ pc |-> "idle", user |-> "", items |-> << >>, key |-> "", successUrl |-> "",
      failureUrl |-> "", pendingUrl |-> "",
      marketplace |-> [ on |-> FALSE, applicationFee |-> 0, applicationFeePercentage |-> 0 ],
      fee |-> 0, total |-> 0, ref |-> 0, urlSent |-> "", pref |-> "",
      failed |-> FALSE, payment |-> NoRecord, resp |-> "", result |-> Processed,
      cached |-> FALSE, at |-> 0, after |-> {} ]

\* the plugin and the stores of security.ts after construction, the tables empty
Construction ==
    /\ variant \in Variants
    /\ options \in [ webhookSecret : BOOLEAN, onPaymentUpdate : BOOLEAN,
                   trustedOrigins : BOOLEAN, onSubscriptionUpdate : BOOLEAN,
                   onSubscriptionPayment : BOOLEAN ]
    /\ now = 0
    /\ ticks = 0
    /\ store = << >>
    /\ attempts = << >>
    /\ nextId = 0
    /\ payments = << >>
    /\ splits = << >>
    /\ customers = << >>
    /\ mpPayments = [ p \in PaymentIds |-> NoMpPayment ]
    /\ mpPrefs = << >>
    /\ mpCalls = [ paymentGet |-> 0, preferenceCreate |-> 0, customerCreate |-> 0,
                   preapprovalGet |-> 0, preapprovalCreate |-> 0 ]
    /\ wh = [ d \in Deliveries |-> IdleDelivery ]
    /\ cp = [ c \in Calls |-> IdleCall ]
    /\ subscriptions = << >>
    /\ mpPreapprovals = [ s \in PreapprovalIds |-> NoMpPreapproval ]
    /\ csub = [ c \in SubCalls |-> IdleSubCall ]
    /\ cancel = [ k \in CancelCalls |-> IdleCancel ]

Init == Construction /\ probe = NoProbe

\* ----------------------------------------------------------------- adapter
\* adapter.findOne on mercadoPagoPayment by one field: the first match, or null
FindPaymentBy(tbl, field, value) ==
    LET hits == { i \in 1..Len(tbl) : tbl[i][field] = value }
    IN  IF hits = {} THEN NoRecord
        ELSE tbl[CHOOSE i \in hits : \A j \in hits : i <= j]

\* the ids of the records of a table
RecordIds(tbl) == { tbl[i].id : i \in 1..Len(tbl) }

\* ----------------------------------------------------------------- webhook
WebhookRateKey == "webhook:global"

\* the deduplication key the handler derives from the notification
WebhookKey(v, dataId, type) ==
    IF v = "server"
    THEN "webhook:" \o dataId \o ":" \o type
    ELSE "mp:webhook:" \o type \o ":" \o dataId

TopicRejectedNever(v, type, dataId) == FALSE

\* topic validation: the notification is acknowledged without processing
TopicRejected(v, type, dataId) ==
    IF v = "server"
    THEN type = "" \/ ~isValidWebhookTopic(type) \/ dataId = ""
    ELSE type # "payment" \/ dataId = ""

SignatureRejectedNever(opts, sigValid) == FALSE

\* signature verification: `sigValid` is verifyWebhookSignature's verdict on the headers
SignatureRejected(opts, sigValid) == opts.webhookSecret /\ ~sigValid

\* the outcomes of verifyWebhookSignature: it returns true or false, or it throws
Verdicts == { "true", "false", "throws" }

\* verifyWebhookSignature throws: the handler calls it outside its try block, so the
\* exception leaves the handler
SignatureThrows(opts, verdict) == opts.webhookSecret /\ verdict = "throws"

\* what the framework answers when an exception leaves a handler
Unhandled == "INTERNAL_SERVER_ERROR"

\* what the handler answers when its try block ends with an APIError
WebhookErrorResponse(v, err) == IF v = "server" THEN err ELSE Ack

Finish(d, rec, resp) == wh' = [wh EXCEPT ![d] = [rec EXCEPT !.pc = "done", !.resp = resp]]

\* rate limit, topic validation, signature, deduplication, up to the first await
\* (`verdict` is the outcome of verifyWebhookSignature on the request's headers)
WebhookReceive(d, type, dataId, verdict) ==
    /\ wh[d].pc = "idle"
    /\ d > 1 => wh[d - 1].pc # "idle"
    /\ attempts' = RateAfter(attempts, WebhookRateKey, WebhookMaxAttempts, WebhookWindowMs, now)
    /\ LET key == WebhookKey(variant, dataId, type)
           sigValid == verdict = "true"
           rec == [wh[d] EXCEPT !.type = type, !.dataId = dataId, !.sig = sigValid,
                                !.sigThrew = (verdict = "throws"), !.at = now]
       IN  IF ~RateAllowed(attempts, WebhookRateKey, WebhookMaxAttempts, WebhookWindowMs, now)
           THEN Finish(d, rec, "TOO_MANY_REQUESTS") /\ UNCHANGED << store, mpCalls >>
           ELSE IF TopicRejected(variant, type, dataId)
           THEN Finish(d, rec, Ack) /\ UNCHANGED << store, mpCalls >>
           ELSE IF SignatureThrows(options, verdict)
           THEN Finish(d, rec, Unhandled) /\ UNCHANGED << store, mpCalls >>
           ELSE IF SignatureRejected(options, sigValid)
           THEN Finish(d, rec, "UNAUTHORIZED") /\ UNCHANGED << store, mpCalls >>
           ELSE IF IdemHas(store, key, now)
           THEN /\ Finish(d, rec, Ack)
                /\ store' = IdemAfterGet(store, key, now)
                /\ UNCHANGED mpCalls
           ELSE /\ store' = IdemSet(IdemAfterGet(store, key, now), key, Processed,
                                    WebhookTtlMs, now)
                /\ IF type = "payment"
                   THEN /\ wh' = [wh EXCEPT ![d] = [rec EXCEPT !.pc = "get", !.marked = TRUE]]
                        /\ mpCalls' = [mpCalls EXCEPT !.paymentGet = @ + 1]
                   ELSE IF type \in { "subscription_preapproval",
                                      "subscription_preapproval_plan" }
                   THEN /\ wh' = [wh EXCEPT ![d] = [rec EXCEPT !.pc = "preGet",
                                                               !.marked = TRUE]]
                        /\ mpCalls' = [mpCalls EXCEPT !.preapprovalGet = @ + 1]
                   ELSE IF type = "subscription_authorized_payment"
                   THEN /\ wh' = [wh EXCEPT ![d] = [rec EXCEPT !.pc = "authGet",
                                                               !.marked = TRUE]]
                        /\ mpCalls' = [mpCalls EXCEPT !.paymentGet = @ + 1]
                   ELSE /\ Finish(d, [rec EXCEPT !.marked = TRUE], Ack)
                        /\ UNCHANGED mpCalls
    /\ UNCHANGED << probe, cancel, subsVars, variant, options, now, ticks, nextId, payments, splits, customers,
                    mpPayments, mpPrefs, cp >>

\* the payment paymentClient.get finds under that id
ProviderPayment(id) == IF id \in DOMAIN mpPayments THEN mpPayments[id] ELSE NoMpPayment

\* paymentClient.get resolves (ok) or rejects
WebhookGet(d, ok) ==
    /\ wh[d].pc = "get"
    /\ LET mp == ProviderPayment(wh[d].dataId)
       IN  IF ~(ok /\ mp.exists)
           THEN Finish(d, wh[d], WebhookErrorResponse(variant, "BAD_REQUEST"))
           ELSE IF variant = "index" /\ mp.external_reference = 0
           THEN Finish(d, [wh[d] EXCEPT !.fetchOk = TRUE, !.mp = mp], Ack)
           ELSE wh' = [wh EXCEPT ![d] = [@ EXCEPT !.pc = "findOne", !.fetchOk = TRUE,
                                                  !.mp = mp]]
    /\ UNCHANGED << probe, cancel, subsVars, variant, options, now, ticks, store, attempts, nextId, payments,
                    splits, customers, mpPayments, mpPrefs, mpCalls, cp >>

\* the record the handler correlates the fetched payment with
Correlate(v, tbl, dataId, mp) ==
    IF v = "server"
    THEN FindPaymentBy(tbl, "mercadoPagoPaymentId", dataId)
    ELSE FindPaymentBy(tbl, "externalReference", mp.external_reference)

\* adapter.findOne resolves; the amount is validated
WebhookFindOne(d) ==
    /\ wh[d].pc = "findOne"
    /\ LET existing == Correlate(variant, payments, wh[d].dataId, wh[d].mp)
           rec == [wh[d] EXCEPT !.existing = existing]
       IN  IF existing.id = 0
           THEN Finish(d, rec, Ack)
           ELSE IF ~validatePaymentAmount(existing.amount, wh[d].mp.transaction_amount)
           THEN Finish(d, rec, WebhookErrorResponse(variant, "BAD_REQUEST"))
           ELSE wh' = [wh EXCEPT ![d] = [rec EXCEPT !.pc = "update"]]
    /\ UNCHANGED << probe, cancel, subsVars, variant, options, now, ticks, store, attempts, nextId, payments,
                    splits, customers, mpPayments, mpPrefs, mpCalls, cp >>

\* the fields adapter.update writes (an undefined value leaves its field as it is)
PaymentUpdateRewritesReference(v, r, dataId, mp, t) ==
    [ r EXCEPT !.status = IF mp.status = "" THEN @ ELSE mp.status,
               !.mercadoPagoPaymentId = IF v = "index" THEN dataId ELSE @,
               !.externalReference = 0,
               !.updatedAt = t ]

\* the record after adapter.update with the data the webhook handler gives it
PaymentUpdate(v, r, dataId, mp, t) ==
    [ r EXCEPT !.status = IF mp.status = "" THEN @ ELSE mp.status,
               !.mercadoPagoPaymentId = IF v = "index" THEN dataId ELSE @,
               !.updatedAt = t ]

UpdatePaymentEvery(tbl, id, v, dataId, mp, t) ==
    [ i \in 1..Len(tbl) |-> PaymentUpdate(v, tbl[i], dataId, mp, t) ]

\* adapter.update on mercadoPagoPayment where id = ..., with those fields
UpdatePaymentById(tbl, id, v, dataId, mp, t) ==
    [ i \in 1..Len(tbl) |->
        IF tbl[i].id = id THEN PaymentUpdate(v, tbl[i], dataId, mp, t) ELSE tbl[i] ]

\* is the callback invoked after the update
CallbackDue(v, opts, mp) ==
    IF v = "server" THEN opts.onPaymentUpdate ELSE opts.onPaymentUpdate /\ mp.status # ""

\* adapter.update resolves
WebhookUpdate(d) ==
    /\ wh[d].pc = "update"
    /\ payments' = UpdatePaymentById(payments, wh[d].existing.id, variant, wh[d].dataId,
                                     wh[d].mp, now)
    /\ IF CallbackDue(variant, options, wh[d].mp)
       THEN wh' = [wh EXCEPT ![d] = [@ EXCEPT !.pc = "callback", !.updated = TRUE]]
       ELSE Finish(d, [wh[d] EXCEPT !.updated = TRUE], Ack)
    /\ UNCHANGED << probe, cancel, subsVars, variant, options, now, ticks, store, attempts, nextId, splits,
                    customers, mpPayments, mpPrefs, mpCalls, cp >>

\* what the handler answers after a callback returned or threw: the exception is
\* caught and logged
AfterCallbackPropagates(throws) == IF throws THEN Unhandled ELSE Ack

AfterCallback(throws) == Ack

\* options.onPaymentUpdate returns or throws
WebhookCallback(d, throws) ==
    /\ wh[d].pc = "callback"
    /\ Finish(d, [wh[d] EXCEPT !.called = TRUE, !.threw = throws,
                               !.cbPayment = wh[d].existing,
                               !.cbStatus = wh[d].mp.status], AfterCallback(throws))
    /\ UNCHANGED << probe, cancel, subsVars, variant, options, now, ticks, store, attempts, nextId, payments,
                    splits, customers, mpPayments, mpPrefs, mpCalls, cp >>

\* --------------------------------------------------------------- environment
\* a payer pays at the provider: the provider now has payment p
ProviderPay(p, ref, amt, st) ==
    /\ ~mpPayments[p].exists
    /\ mpPayments' = [mpPayments EXCEPT ![p] =
            [ exists |-> TRUE, status |-> st, transaction_amount |-> amt,
              external_reference |-> ref ]]
    /\ UNCHANGED << probe, cancel, subsVars, variant, options, now, ticks, store, attempts, nextId, payments,
                    splits, customers, mpPrefs, mpCalls, wh, cp >>

\* the provider moves payment p to another status
ProviderChange(p, st) ==
    /\ mpPayments[p].exists
    /\ mpPayments[p].status # st
    /\ mpPayments' = [mpPayments EXCEPT ![p].status = st]
    /\ UNCHANGED << probe, cancel, subsVars, variant, options, now, ticks, store, attempts, nextId, payments,
                    splits, customers, mpPrefs, mpCalls, wh, cp >>

Tick(dt) ==
    /\ ticks < MaxTicks
    /\ ticks' = ticks + 1
    /\ now' = now + dt
    /\ UNCHANGED << probe, cancel, subsVars, variant, options, store, attempts, nextId, payments, splits,
                    customers, mpPayments, mpPrefs, mpCalls, wh, cp >>

\* setInterval(() => idempotencyStore.cleanup(), ...) and rateLimiter.cleanup()
Cleanup ==
    /\ store' = IdemCleanup(store, now)
    /\ attempts' = RateCleanup(attempts, now)
    /\ UNCHANGED << probe, cancel, subsVars, variant, options, now, ticks, nextId, payments, splits, customers,
                    mpPayments, mpPrefs, mpCalls, wh, cp >>

\* ----------------------------------------------------------- createPayment
Item(price, qty, cur) == [ unitPrice |-> price, quantity |-> qty, currencyId |-> cur ]

ValidCurrencyAny(currency) == TRUE

\* ValidationRules.currency
ValidCurrency(currency) == currency \in {"ARS", "BRL", "CLP", "MXN", "COP", "PEN", "UYU"}

\* ValidationRules.amount
ValidAmount(amount) ==
    /\ amount > 0
    /\ \/ amount \div CentsPerUnit < MaxAmount
       \/ amount \div CentsPerUnit = MaxAmount /\ amount % CentsPerUnit = 0

TotalFirstOnly(items) == IF items = << >> THEN 0 ELSE items[1].unitPrice * items[1].quantity

\* items.reduce((sum, item) => sum + item.unitPrice * item.quantity, 0)
RECURSIVE TotalAmount(_)
TotalAmount(items) ==
    IF items = << >> THEN 0
    ELSE items[1].unitPrice * items[1].quantity + TotalAmount(Tail(items))

\* the total split into whole units and the hundredths left over; amounts are held
\* in hundredths, and a total beyond the ceiling is more hundredths than an integer
\* of the model holds
RECURSIVE WholeUnits(_)
WholeUnits(items) ==
    IF items = << >> THEN 0
    ELSE (items[1].unitPrice \div CentsPerUnit) * items[1].quantity
            + WholeUnits(Tail(items))

RECURSIVE LeftOver(_)
LeftOver(items) ==
    IF items = << >> THEN 0
    ELSE (items[1].unitPrice % CentsPerUnit) * items[1].quantity + LeftOver(Tail(items))

\* amount <= 999999999 fails, told from the parts of the total
ExceedsCeiling(items) ==
    LET units == WholeUnits(items) + LeftOver(items) \div CentsPerUnit
        cents == LeftOver(items) % CentsPerUnit
    IN  units > MaxAmount \/ (units = MaxAmount /\ cents > 0)

\* the characters of an idempotency key
KeyChars(key) == [ i \in 1..Len(key) |-> SubSeq(key, i, i) ]

Digits == { "0", "1", "2", "3", "4", "5", "6", "7", "8", "9" }
Lower == { "a", "b", "c", "d", "e", "f", "g", "h", "i", "j", "k", "l", "m", "n", "o", "p",
           "q", "r", "s", "t", "u", "v", "w", "x", "y", "z" }
Upper == { "A", "B", "C", "D", "E", "F", "G", "H", "I", "J", "K", "L", "M", "N", "O", "P",
           "Q", "R", "S", "T", "U", "V", "W", "X", "Y", "Z" }
Hex == Digits \cup { "a", "b", "c", "d", "e", "f", "A", "B", "C", "D", "E", "F" }

\* /^[0-9a-f]{8}-[0-9a-f]{4}-4[0-9a-f]{3}-[89ab][0-9a-f]{3}-[0-9a-f]{12}$/i
MatchesUuid(cs) ==
    /\ Len(cs) = 36
    /\ \A i \in 1..36 :
        IF i \in {9, 14, 19, 24} THEN cs[i] = "-"
        ELSE IF i = 15 THEN cs[i] = "4"
        ELSE IF i = 20 THEN cs[i] \in {"8", "9", "a", "b", "A", "B"}
        ELSE cs[i] \in Hex

MatchesCustomWithColon(cs) ==
    /\ Len(cs) >= 8
    /\ Len(cs) <= 64
    /\ \A i \in 1..Len(cs) : cs[i] \in Lower \cup Upper \cup Digits \cup {"_", "-", ":"}

\* /^[a-zA-Z0-9_-]{8,64}$/
MatchesCustom(cs) ==
    /\ Len(cs) >= 8
    /\ Len(cs) <= 64
    /\ \A i \in 1..Len(cs) : cs[i] \in Lower \cup Upper \cup Digits \cup {"_", "-"}

\* validateIdempotencyKey
validateIdempotencyKey(key) == MatchesUuid(KeyChars(key)) \/ MatchesCustom(KeyChars(key))

\* the hostname `new URL(url)` yields for the URLs the requests use
RECURSIVE HostEnd(_, _)
\* the index of the last character of the authority that starts at `from`
HostEnd(url, from) ==
    IF from > Len(url) \/ SubSeq(url, from, from) = "/" THEN from - 1
    ELSE HostEnd(url, from + 1)

\* parsed.hostname of `new URL(url)` for the URLs the requests use (https, no port,
\* no user info, lower case); "" when `new URL` throws
UrlHost(url) ==
    IF Len(url) > 8 /\ SubSeq(url, 1, 8) = "https://"
    THEN SubSeq(url, 9, HostEnd(url, 9))
    ELSE ""

\* hostname.endsWith(baseDomain)
EndsWith(hostname, baseDomain) ==
    /\ Len(hostname) >= Len(baseDomain)
    /\ SubSeq(hostname, Len(hostname) - Len(baseDomain) + 1, Len(hostname)) = baseDomain

\* domain.startsWith("*.")
IsWildcard(domain) == Len(domain) >= 2 /\ SubSeq(domain, 1, 2) = "*."

\* domain.substring(2)
BaseDomain(domain) == SubSeq(domain, 3, Len(domain))

\* options.trustedOrigins, when configured
TrustedOrigins == { "mysite.com", "*.shop.com" }

\* validateCallbackUrl against options.trustedOrigins.  Every URL of the requests
\* is https, so the protocol check of production passes.
validateCallbackUrl(url, allowedDomains) ==
    /\ UrlHost(url) # ""
    /\ \E domain \in allowedDomains :
          IF IsWildcard(domain)
          THEN EndsWith(UrlHost(url), BaseDomain(domain))
          ELSE UrlHost(url) = domain

\* [successUrl, failureUrl, pendingUrl].filter(Boolean)
GivenUrls(rec) == { rec.successUrl, rec.failureUrl, rec.pendingUrl } \ { "" }

\* handleMercadoPagoError: the APIError thrown for a provider error with that status
\* (0: the error carries no status)
handleMercadoPagoError(status) ==
    IF status # 0
    THEN CASE status = 400 -> "BAD_REQUEST"
           [] status = 401 -> "UNAUTHORIZED"
           [] status = 403 -> "FORBIDDEN"
           [] status = 404 -> "NOT_FOUND"
           [] status = 429 -> "TOO_MANY_REQUESTS"
           [] status = 500 -> "INTERNAL_SERVER_ERROR"
           [] OTHER -> "BAD_REQUEST"
    ELSE "INTERNAL_SERVER_ERROR"

\* what a failed provider call makes the request end with
ProviderFailure(v, status) ==
    IF v = "server" THEN handleMercadoPagoError(status) ELSE "INTERNAL_SERVER_ERROR"

CreateRateKeyShared(user) == "payment:create:"

CreateRateKey(user) == "payment:create:" \o user

\* the window of the key is over at time t: none was opened, or more than the window's
\* length has passed since it was opened
WindowOver(w, windowMs, t) == ~w.any \/ t - w.at > windowMs

\* the record of the calls made: the user's call at time t is counted in the window
\* it falls in (kept only where the calls of a window are being counted)
CallCounted(p, user, t) ==
    IF p.kind = "limit" /\ user # ""
    THEN [p EXCEPT !.windows[user] =
            IF WindowOver(@, CreateWindowMs, t) THEN [ any |-> TRUE, at |-> t, n |-> 1 ]
            ELSE [ @ EXCEPT !.n = @ + 1 ]]
    ELSE p

\* preference.init_point of the preference with that id
InitPoint(prefId) == "https://mp.com/checkout/" \o prefId

\* back_urls.success sent to the provider
SuccessUrl(v, successUrl) ==
    IF successUrl # "" THEN successUrl
    ELSE IF v = "server" THEN "baseUrl/payment/success"
    ELSE "baseUrl/payments/one-time?status=success"

NoMarketplace == [ on |-> FALSE, applicationFee |-> 0, applicationFeePercentage |-> 0 ]

ApplicationFeeUnchecked(mkt, total) == 0

\* applicationFeeAmount
ApplicationFee(mkt, total) ==
    IF ~mkt.on THEN 0
    ELSE IF mkt.applicationFee # 0 THEN mkt.applicationFee
    ELSE IF mkt.applicationFeePercentage # 0
         THEN (total * mkt.applicationFeePercentage) \div 100
    ELSE 0

End(c, rec, resp) == cp' = [cp EXCEPT ![c] = [rec EXCEPT !.pc = "done", !.resp = resp]]

\* total, amount and fee validation, then preferenceClient.create is called
\* (server.ts, after the customer is known)
\* `ids` is the number of ids handed out before; externalReference = generateId()
\* is drawn here by part_005
BuildPreference(c, rec, ids) ==
    LET total == TotalAmount(rec.items)
        fee == ApplicationFee(rec.marketplace, total)
    IN  IF ExceedsCeiling(rec.items) \/ ~ValidAmount(total)
        THEN End(c, rec, "BAD_REQUEST") /\ nextId' = ids /\ UNCHANGED mpCalls
        ELSE IF variant = "server" /\ rec.marketplace.on /\ fee >= total
        THEN End(c, rec, "BAD_REQUEST") /\ nextId' = ids /\ UNCHANGED mpCalls
        ELSE /\ cp' = [cp EXCEPT ![c] =
                    [rec EXCEPT !.pc = "prefCreate", !.total = total, !.fee = fee,
                                !.ref = IF variant = "index" THEN ids + 1 ELSE 0,
                                !.urlSent = SuccessUrl(variant, rec.successUrl)]]
             /\ nextId' = IF variant = "index" THEN ids + 1 ELSE ids
             /\ mpCalls' = [mpCalls EXCEPT !.preferenceCreate = @ + 1]

\* session, rate limit, idempotency lookup and validation, up to the first await
CreateStart(c, user, items, key, successUrl, failureUrl, pendingUrl, mkt) ==
    /\ cp[c].pc = "idle"
    /\ c > 1 => cp[c - 1].pc # "idle"
    /\ variant = "index" => mkt = NoMarketplace
    /\ LET rec == [cp[c] EXCEPT !.user = user, !.items = items, !.key = key,
                                !.successUrl = successUrl, !.failureUrl = failureUrl,
                                !.pendingUrl = pendingUrl, !.marketplace = mkt,
                                !.at = now,
                                !.after = { x \in Calls : cp[x].pc = "done" }]
           rkey == CreateRateKey(user)
       IN  IF user = ""
           THEN End(c, rec, "UNAUTHORIZED")
                /\ UNCHANGED << attempts, store, mpCalls, nextId >>
           ELSE /\ attempts' = RateAfter(attempts, rkey, CreateMaxAttempts,
                                         CreateWindowMs, now)
                /\ IF ~RateAllowed(attempts, rkey, CreateMaxAttempts, CreateWindowMs, now)
                   THEN End(c, rec, "TOO_MANY_REQUESTS")
                        /\ UNCHANGED << store, mpCalls, nextId >>
                   ELSE IF key # "" /\ ~validateIdempotencyKey(key)
                   THEN End(c, rec, "BAD_REQUEST")
                        /\ UNCHANGED << store, mpCalls, nextId >>
                   ELSE IF key # "" /\ IdemHas(store, key, now)
                   THEN /\ End(c, [rec EXCEPT !.cached = TRUE,
                                              !.result = IdemGet(store, key, now)], "ok")
                        /\ UNCHANGED << store, mpCalls, nextId >>
                   ELSE /\ store' = IF key # "" THEN IdemAfterGet(store, key, now)
                                    ELSE store
                        /\ IF /\ variant = "server"
                              /\ options.trustedOrigins
                              /\ \E url \in GivenUrls(rec) :
                                    ~validateCallbackUrl(url, TrustedOrigins)
                           THEN End(c, rec, "FORBIDDEN") /\ UNCHANGED << mpCalls, nextId >>
                           ELSE IF \E i \in 1..Len(items) : ~ValidCurrency(items[i].currencyId)
                           THEN End(c, rec, "BAD_REQUEST") /\ UNCHANGED << mpCalls, nextId >>
                           ELSE IF variant = "server"
                           THEN /\ cp' = [cp EXCEPT ![c] = [rec EXCEPT !.pc = "custFind"]]
                                /\ UNCHANGED << mpCalls, nextId >>
                           ELSE BuildPreference(c, rec, nextId)
    /\ probe' = CallCounted(probe, user, now)
    /\ UNCHANGED << cancel, subsVars, variant, options, now, ticks, payments, splits, customers,
                    mpPayments, mpPrefs, wh >>

\* adapter.findOne on mercadoPagoCustomer resolves (server.ts)
CreateCustFind(c) ==
    /\ cp[c].pc = "custFind"
    /\ IF \E i \in 1..Len(customers) : customers[i].userId = cp[c].user
       THEN BuildPreference(c, cp[c], nextId)
       ELSE /\ cp' = [cp EXCEPT ![c].pc = "custCreate"]
            /\ mpCalls' = [mpCalls EXCEPT !.customerCreate = @ + 1]
            /\ UNCHANGED nextId
    /\ UNCHANGED << probe, cancel, subsVars, variant, options, now, ticks, store, attempts, payments, splits,
                    customers, mpPayments, mpPrefs, wh >>

\* customerClient.create resolves (ok) or rejects with a status (server.ts)
CreateCustCreate(c, ok, status) ==
    /\ cp[c].pc = "custCreate"
    /\ IF ok
       THEN cp' = [cp EXCEPT ![c].pc = "custPersist"]
       ELSE End(c, cp[c], handleMercadoPagoError(status))
    /\ UNCHANGED << probe, cancel, subsVars, variant, options, now, ticks, store, attempts, nextId, payments,
                    splits, customers, mpPayments, mpPrefs, mpCalls, wh >>

\* adapter.create on mercadoPagoCustomer resolves (server.ts)
CreateCustPersist(c) ==
    /\ cp[c].pc = "custPersist"
    /\ customers' = Append(customers, [ id |-> nextId + 1, userId |-> cp[c].user ])
    /\ BuildPreference(c, cp[c], nextId + 1)
    /\ UNCHANGED << probe, cancel, subsVars, variant, options, now, ticks, store, attempts, payments, splits,
                    mpPayments, mpPrefs, wh >>

CreatePrefSwallows(c, ok, status, prefId) ==
    /\ cp[c].pc = "prefCreate"
    /\ IF ok
       THEN /\ \A i \in 1..Len(mpPrefs) : mpPrefs[i].id # prefId
            /\ mpPrefs' = Append(mpPrefs,
                    [ id |-> prefId, external_reference |-> cp[c].ref,
                      success |-> cp[c].urlSent, amount |-> cp[c].total ])
            /\ cp' = [cp EXCEPT ![c] = [@ EXCEPT !.pc = "payPersist", !.pref = prefId]]
       ELSE /\ cp' = [cp EXCEPT ![c] = [@ EXCEPT !.pc = "payPersist", !.failed = TRUE]]
            /\ UNCHANGED mpPrefs
    /\ UNCHANGED << probe, cancel, subsVars, variant, options, now, ticks, store, attempts, nextId, payments,
                    splits, customers, mpPayments, mpCalls, wh >>

CreatePrefCachesEarly(c, ok, status, prefId) ==
    /\ cp[c].pc = "prefCreate"
    /\ IF ok
       THEN /\ \A i \in 1..Len(mpPrefs) : mpPrefs[i].id # prefId
            /\ mpPrefs' = Append(mpPrefs,
                    [ id |-> prefId, external_reference |-> cp[c].ref,
                      success |-> cp[c].urlSent, amount |-> cp[c].total ])
            /\ cp' = [cp EXCEPT ![c] = [@ EXCEPT !.pc = "payPersist", !.pref = prefId]]
            /\ store' = IF cp[c].key # ""
                        THEN IdemSet(store, cp[c].key,
                                     [ checkoutUrl |-> InitPoint(prefId),
                                       preferenceId |-> prefId,
                                       payment |-> [NoRecord EXCEPT !.id = nextId + 1,
                                                                    !.userId = cp[c].user,
                                                                    !.preferenceId = prefId] ],
                                     DefaultTtlMs, now)
                        ELSE store
       ELSE /\ End(c, [cp[c] EXCEPT !.failed = TRUE], ProviderFailure(variant, status))
            /\ UNCHANGED << mpPrefs, store >>
    /\ UNCHANGED << probe, cancel, subsVars, variant, options, now, ticks, attempts, nextId, payments,
                    splits, customers, mpPayments, mpCalls, wh >>

\* preferenceClient.create resolves with a new preference (ok) or rejects
CreatePref(c, ok, status, prefId) ==
    /\ cp[c].pc = "prefCreate"
    /\ IF ok
       THEN /\ \A i \in 1..Len(mpPrefs) : mpPrefs[i].id # prefId
            /\ mpPrefs' = Append(mpPrefs,
                    [ id |-> prefId, external_reference |-> cp[c].ref,
                      success |-> cp[c].urlSent, amount |-> cp[c].total ])
            /\ cp' = [cp EXCEPT ![c] = [@ EXCEPT !.pc = "payPersist", !.pref = prefId]]
       ELSE /\ End(c, [cp[c] EXCEPT !.failed = TRUE], ProviderFailure(variant, status))
            /\ UNCHANGED mpPrefs
    /\ UNCHANGED << probe, cancel, subsVars, variant, options, now, ticks, store, attempts, nextId, payments,
                    splits, customers, mpPayments, mpCalls, wh >>

\* the record adapter.create is given, with the id it gets
NewPaymentRecord(v, id, call, t) ==
    [ id |-> id, userId |-> call.user,
      mercadoPagoPaymentId |-> IF v = "server" THEN call.pref ELSE "",
      preferenceId |-> call.pref,
      externalReference |-> call.ref,
      status |-> "pending", amount |-> call.total,
      currency |-> IF call.items = << >> THEN "ARS" ELSE call.items[1].currencyId,
      createdAt |-> t, updatedAt |-> t ]

RespondUncached(c, rec) ==
    /\ End(c, [rec EXCEPT !.result = [ checkoutUrl |-> InitPoint(rec.pref),
                                       preferenceId |-> rec.pref,
                                       payment |-> rec.payment ]], "ok")
    /\ store' = store

\* the response is built, cached under the idempotency key and returned
Respond(c, rec) ==
    LET result == [ checkoutUrl |-> InitPoint(rec.pref), preferenceId |-> rec.pref,
                    payment |-> rec.payment ]
    IN  /\ End(c, [rec EXCEPT !.result = result], "ok")
        /\ store' = IF rec.key # "" THEN IdemSet(store, rec.key, result, DefaultTtlMs, now)
                    ELSE store

\* adapter.create on mercadoPagoPayment resolves
CreatePayPersist(c) ==
    /\ cp[c].pc = "payPersist"
    /\ LET payment == NewPaymentRecord(variant, nextId + 1, cp[c], now)
           rec == [cp[c] EXCEPT !.payment = payment]
       IN  /\ payments' = Append(payments, payment)
           /\ IF variant = "server" /\ rec.marketplace.on
              THEN cp' = [cp EXCEPT ![c] = [rec EXCEPT !.pc = "splitPersist"]]
                   /\ UNCHANGED store
              ELSE Respond(c, rec)
    /\ nextId' = nextId + 1
    /\ UNCHANGED << probe, cancel, subsVars, variant, options, now, ticks, attempts, splits, customers,
                    mpPayments, mpPrefs, mpCalls, wh >>

\* adapter.create on mercadoPagoMarketplaceSplit resolves (server.ts)
CreateSplitPersist(c) ==
    /\ cp[c].pc = "splitPersist"
    /\ splits' = Append(splits,
            [ id |-> nextId + 1, paymentId |-> cp[c].payment.id,
              applicationFeeAmount |-> cp[c].fee,
              applicationFeePercentage |-> cp[c].marketplace.applicationFeePercentage,
              netAmount |-> cp[c].total - cp[c].fee ])
    /\ nextId' = nextId + 1
    /\ Respond(c, cp[c])
    /\ UNCHANGED << probe, cancel, subsVars, variant, options, now, ticks, attempts, payments, customers,
                    mpPayments, mpPrefs, mpCalls, wh >>

\* ------------------------------------------------------ createSubscription
\* adapter.findOne on mercadoPagoSubscription by one field: the first match, or null
FindSubscriptionByFirst(tbl, field, value) ==
    IF tbl = << >> THEN NoSubscription ELSE tbl[1]

FindSubscriptionBy(tbl, field, value) ==
    LET hits == { i \in 1..Len(tbl) : tbl[i][field] = value }
    IN  IF hits = {} THEN NoSubscription
        ELSE tbl[CHOOSE i \in hits : \A j \in hits : i <= j]

EndSub(c, rec, resp) ==
    csub' = [csub EXCEPT ![c] = [rec EXCEPT !.pc = "done", !.resp = resp]]

\* subscriptionId = generateId(), then preApprovalClient.create is called with
\* external_reference: subscriptionId (`ids` is the number of ids handed out before)
PreparePreapproval(c, rec, ids) ==
    /\ nextId' = ids + 1
    /\ IF rec.planId # "" \/ rec.autoRecurring
       THEN /\ csub' = [csub EXCEPT ![c] = [rec EXCEPT !.pc = "preCreate",
                                                       !.subscriptionId = ids + 1,
                                                       !.ref = ids + 1]]
            /\ mpCalls' = [mpCalls EXCEPT !.preapprovalCreate = @ + 1]
       ELSE /\ EndSub(c, [rec EXCEPT !.subscriptionId = ids + 1], "BAD_REQUEST")
            /\ UNCHANGED mpCalls

\* session and body validation, up to the first await
CreateSubStart(c, user, planId, reason, autoRecurring) ==
    /\ variant = "server"
    /\ csub[c].pc = "idle"
    /\ LET rec == [csub[c] EXCEPT !.user = user, !.planId = planId, !.reason = reason,
                                  !.autoRecurring = autoRecurring]
       IN  IF user = ""
           THEN EndSub(c, rec, "UNAUTHORIZED")
           ELSE IF planId = "" /\ (reason = "" \/ ~autoRecurring)
           THEN EndSub(c, rec, "BAD_REQUEST")
           ELSE csub' = [csub EXCEPT ![c] = [rec EXCEPT !.pc = "custFind"]]
    /\ UNCHANGED << probe, cancel, variant, options, now, ticks, store, attempts, nextId, payments,
                    splits, customers, mpPayments, mpPrefs, mpCalls, wh, cp,
                    subscriptions, mpPreapprovals >>

\* adapter.findOne on mercadoPagoCustomer resolves
CreateSubCustFind(c) ==
    /\ csub[c].pc = "custFind"
    /\ IF \E i \in 1..Len(customers) : customers[i].userId = csub[c].user
       THEN PreparePreapproval(c, csub[c], nextId)
       ELSE /\ csub' = [csub EXCEPT ![c].pc = "custCreate"]
            /\ mpCalls' = [mpCalls EXCEPT !.customerCreate = @ + 1]
            /\ UNCHANGED nextId
    /\ UNCHANGED << probe, cancel, variant, options, now, ticks, store, attempts, payments,
                    splits, customers, mpPayments, mpPrefs, wh, cp,
                    subscriptions, mpPreapprovals >>

\* customerClient.create resolves (ok) or rejects: nothing catches the rejection
CreateSubCustCreate(c, ok) ==
    /\ csub[c].pc = "custCreate"
    /\ IF ok
       THEN csub' = [csub EXCEPT ![c].pc = "custPersist"]
       ELSE EndSub(c, csub[c], Unhandled)
    /\ UNCHANGED << probe, cancel, variant, options, now, ticks, store, attempts, nextId, payments,
                    splits, customers, mpPayments, mpPrefs, mpCalls, wh, cp,
                    subscriptions, mpPreapprovals >>

\* adapter.create on mercadoPagoCustomer resolves
CreateSubCustPersist(c) ==
    /\ csub[c].pc = "custPersist"
    /\ customers' = Append(customers, [ id |-> nextId + 1, userId |-> csub[c].user ])
    /\ PreparePreapproval(c, csub[c], nextId + 1)
    /\ UNCHANGED << probe, cancel, variant, options, now, ticks, store, attempts, payments,
                    splits, mpPayments, mpPrefs, wh, cp, subscriptions, mpPreapprovals >>

\* preApprovalClient.create resolves with a new preapproval (ok) or rejects: nothing
\* catches the rejection
CreateSubPreCreate(c, ok, preId) ==
    /\ csub[c].pc = "preCreate"
    /\ IF ok
       THEN /\ ~mpPreapprovals[preId].exists
            /\ mpPreapprovals' = [mpPreapprovals EXCEPT ![preId] =
                    [ exists |-> TRUE, status |-> "pending", reason |-> csub[c].reason,
                      external_reference |-> csub[c].ref ]]
            /\ csub' = [csub EXCEPT ![c] = [@ EXCEPT !.pc = "subPersist", !.pre = preId]]
       ELSE /\ EndSub(c, csub[c], Unhandled)
            /\ UNCHANGED mpPreapprovals
    /\ UNCHANGED << probe, cancel, variant, options, now, ticks, store, attempts, nextId, payments,
                    splits, customers, mpPayments, mpPrefs, mpCalls, wh, cp,
                    subscriptions >>

NewSubscriptionRecordOwnId(id, call, t) ==
    [ id |-> id + 1, userId |-> call.user, mercadoPagoSubscriptionId |-> call.pre,
      planId |-> IF call.planId # "" THEN call.planId
                 ELSE IF call.reason # "" THEN call.reason ELSE "direct",
      status |-> "pending", reason |-> "", createdAt |-> t, updatedAt |-> t ]

\* the record adapter.create is given and persists: its id is subscriptionId
NewSubscriptionRecord(id, call, t) ==
    [ id |-> id, userId |-> call.user, mercadoPagoSubscriptionId |-> call.pre,
      planId |-> IF call.planId # "" THEN call.planId
                 ELSE IF call.reason # "" THEN call.reason ELSE "direct",
      status |-> "pending", reason |-> "", createdAt |-> t, updatedAt |-> t ]

\* adapter.create on mercadoPagoSubscription resolves; the response is returned
CreateSubPersist(c) ==
    /\ csub[c].pc = "subPersist"
    /\ LET subscription == NewSubscriptionRecord(csub[c].subscriptionId, csub[c], now)
       IN  /\ subscriptions' = Append(subscriptions, subscription)
           /\ EndSub(c, [csub[c] EXCEPT !.subscription = subscription], "ok")
    /\ UNCHANGED << probe, cancel, variant, options, now, ticks, store, attempts, nextId, payments,
                    splits, customers, mpPayments, mpPrefs, mpCalls, wh, cp,
                    mpPreapprovals >>

\* ------------------------------------------------------ cancelSubscription
EndCancel(k, rec, resp) ==
    cancel' = [cancel EXCEPT ![k] = [rec EXCEPT !.pc = "done", !.resp = resp]]

\* adapter.findOne on mercadoPagoSubscription where id = ... and userId = ...
FindOwnSubscriptionAnyOwner(tbl, id, userId) == FindSubscriptionBy(tbl, "id", id)

FindOwnSubscription(tbl, id, userId) ==
    LET hits == { i \in 1..Len(tbl) : tbl[i].id = id /\ tbl[i].userId = userId }
    IN  IF hits = {} THEN NoSubscription
        ELSE tbl[CHOOSE i \in hits : \A j \in hits : i <= j]

\* session check, up to the first await
CancelStart(k, user, subscriptionId) ==
    /\ variant = "server"
    /\ cancel[k].pc = "idle"
    /\ LET rec == [cancel[k] EXCEPT !.user = user, !.subscriptionId = subscriptionId]
       IN  IF user = ""
           THEN EndCancel(k, rec, "UNAUTHORIZED")
           ELSE cancel' = [cancel EXCEPT ![k] = [rec EXCEPT !.pc = "find"]]
    /\ UNCHANGED << probe, variant, options, now, ticks, store, attempts, nextId, payments,
                    splits, customers, mpPayments, mpPrefs, mpCalls, wh, cp, subsVars >>

\* adapter.findOne resolves; preApprovalClient.update is called
CancelFind(k) ==
    /\ cancel[k].pc = "find"
    /\ LET subscription ==
               FindOwnSubscription(subscriptions, cancel[k].subscriptionId, cancel[k].user)
       IN  IF subscription.id = 0
           THEN EndCancel(k, cancel[k], "NOT_FOUND")
           ELSE cancel' = [cancel EXCEPT ![k] = [@ EXCEPT !.pc = "mpUpdate",
                                                          !.subscription = subscription]]
    /\ UNCHANGED << probe, variant, options, now, ticks, store, attempts, nextId, payments,
                    splits, customers, mpPayments, mpPrefs, mpCalls, wh, cp, subsVars >>

CancelMpUpdateSwallows(k, ok) ==
    /\ cancel[k].pc = "mpUpdate"
    /\ LET pre == cancel[k].subscription.mercadoPagoSubscriptionId
       IN  IF ok /\ pre \in DOMAIN mpPreapprovals /\ mpPreapprovals[pre].exists
           THEN /\ mpPreapprovals' = [mpPreapprovals EXCEPT ![pre].status = "cancelled"]
                /\ cancel' = [cancel EXCEPT ![k].pc = "persist"]
           ELSE /\ cancel' = [cancel EXCEPT ![k].pc = "persist"]
                /\ UNCHANGED mpPreapprovals
    /\ UNCHANGED << probe, variant, options, now, ticks, store, attempts, nextId, payments,
                    splits, customers, mpPayments, mpPrefs, mpCalls, wh, cp,
                    subscriptions, csub >>

\* preApprovalClient.update({ status: "cancelled" }) resolves (ok) or rejects: nothing
\* catches the rejection
CancelMpUpdate(k, ok) ==
    /\ cancel[k].pc = "mpUpdate"
    /\ LET pre == cancel[k].subscription.mercadoPagoSubscriptionId
       IN  IF ok /\ pre \in DOMAIN mpPreapprovals /\ mpPreapprovals[pre].exists
           THEN /\ mpPreapprovals' = [mpPreapprovals EXCEPT ![pre].status = "cancelled"]
                /\ cancel' = [cancel EXCEPT ![k].pc = "persist"]
           ELSE /\ EndCancel(k, cancel[k], Unhandled)
                /\ UNCHANGED mpPreapprovals
    /\ UNCHANGED << probe, variant, options, now, ticks, store, attempts, nextId, payments,
                    splits, customers, mpPayments, mpPrefs, mpCalls, wh, cp,
                    subscriptions, csub >>

\* adapter.update on mercadoPagoSubscription where id = subscriptionId resolves
CancelPersist(k) ==
    /\ cancel[k].pc = "persist"
    /\ subscriptions' = [ i \in 1..Len(subscriptions) |->
            IF subscriptions[i].id = cancel[k].subscriptionId
            THEN [subscriptions[i] EXCEPT !.status = "cancelled", !.updatedAt = now]
            ELSE subscriptions[i] ]
    /\ EndCancel(k, cancel[k], "ok")
    /\ UNCHANGED << probe, variant, options, now, ticks, store, attempts, nextId, payments,
                    splits, customers, mpPayments, mpPrefs, mpCalls, wh, cp,
                    mpPreapprovals, csub >>

\* ----------------------------------------------- webhook: subscription topics
\* the preapproval preApprovalClient.get finds under that id
ProviderPreapproval(id) ==
    IF id \in DOMAIN mpPreapprovals THEN mpPreapprovals[id] ELSE NoMpPreapproval

\* preApprovalClient.get resolves (ok) or rejects; adapter.findOne is called
WebhookPreGet(d, ok) ==
    /\ wh[d].pc = "preGet"
    /\ LET pre == ProviderPreapproval(wh[d].dataId)
       IN  IF ~(ok /\ pre.exists)
           THEN Finish(d, wh[d], "BAD_REQUEST")
           ELSE wh' = [wh EXCEPT ![d] = [@ EXCEPT !.pc = "subFind", !.fetchOk = TRUE,
                                                  !.pre = pre]]
    /\ UNCHANGED << probe, cancel, subsVars, variant, options, now, ticks, store, attempts, nextId,
                    payments, splits, customers, mpPayments, mpPrefs, mpCalls, cp >>

\* adapter.findOne on mercadoPagoSubscription by mercadoPagoSubscriptionId resolves
WebhookSubFind(d) ==
    /\ wh[d].pc = "subFind"
    /\ LET existingSubscription ==
               FindSubscriptionBy(subscriptions, "mercadoPagoSubscriptionId", wh[d].dataId)
           rec == [wh[d] EXCEPT !.sub = existingSubscription]
       IN  IF existingSubscription.id = 0
           THEN Finish(d, rec, Ack)
           ELSE wh' = [wh EXCEPT ![d] = [rec EXCEPT !.pc = "subUpdate"]]
    /\ UNCHANGED << probe, cancel, subsVars, variant, options, now, ticks, store, attempts, nextId,
                    payments, splits, customers, mpPayments, mpPrefs, mpCalls, cp >>

\* the fields adapter.update writes (an undefined value leaves its field as it is)
SubscriptionUpdate(r, pre, t) ==
    [ r EXCEPT !.status = IF pre.status = "" THEN @ ELSE pre.status,
               !.reason = IF pre.reason = "" THEN @ ELSE pre.reason,
               !.updatedAt = t ]

\* adapter.update on mercadoPagoSubscription where id = ... resolves
WebhookSubUpdate(d) ==
    /\ wh[d].pc = "subUpdate"
    /\ subscriptions' = [ i \in 1..Len(subscriptions) |->
            IF subscriptions[i].id = wh[d].sub.id
            THEN SubscriptionUpdate(subscriptions[i], wh[d].pre, now)
            ELSE subscriptions[i] ]
    /\ IF options.onSubscriptionUpdate
       THEN wh' = [wh EXCEPT ![d] = [@ EXCEPT !.pc = "subCallback", !.updated = TRUE]]
       ELSE Finish(d, [wh[d] EXCEPT !.updated = TRUE], Ack)
    /\ UNCHANGED << probe, cancel, variant, options, now, ticks, store, attempts, nextId,
                    payments, splits, customers, mpPayments, mpPrefs, mpCalls, cp,
                    mpPreapprovals, csub >>

\* options.onSubscriptionUpdate returns or throws
WebhookSubCallback(d, throws) ==
    /\ wh[d].pc = "subCallback"
    /\ Finish(d, [wh[d] EXCEPT !.called = TRUE, !.threw = throws,
                               !.cbSub = wh[d].sub,
                               !.cbStatus = wh[d].pre.status], AfterCallback(throws))
    /\ UNCHANGED << probe, cancel, subsVars, variant, options, now, ticks, store, attempts, nextId,
                    payments, splits, customers, mpPayments, mpPrefs, mpCalls, cp >>

\* paymentClient.get of an authorized recurring payment resolves (ok) or rejects
WebhookAuthGet(d, ok) ==
    /\ wh[d].pc = "authGet"
    /\ LET mp == ProviderPayment(wh[d].dataId)
       IN  IF ~(ok /\ mp.exists)
           THEN Finish(d, wh[d], "BAD_REQUEST")
           ELSE IF mp.external_reference = 0
           THEN Finish(d, [wh[d] EXCEPT !.fetchOk = TRUE, !.mp = mp], Ack)
           ELSE wh' = [wh EXCEPT ![d] = [@ EXCEPT !.pc = "authFind", !.fetchOk = TRUE,
                                                  !.mp = mp]]
    /\ UNCHANGED << probe, cancel, subsVars, variant, options, now, ticks, store, attempts, nextId,
                    payments, splits, customers, mpPayments, mpPrefs, mpCalls, cp >>

\* adapter.findOne on mercadoPagoSubscription by id = external_reference resolves
WebhookAuthFind(d) ==
    /\ wh[d].pc = "authFind"
    /\ LET subscription ==
               FindSubscriptionBy(subscriptions, "id", wh[d].mp.external_reference)
           rec == [wh[d] EXCEPT !.sub = subscription]
       IN  IF subscription.id # 0 /\ options.onSubscriptionPayment
           THEN wh' = [wh EXCEPT ![d] = [rec EXCEPT !.pc = "authCallback"]]
           ELSE Finish(d, rec, Ack)
    /\ UNCHANGED << probe, cancel, subsVars, variant, options, now, ticks, store, attempts, nextId,
                    payments, splits, customers, mpPayments, mpPrefs, mpCalls, cp >>

\* options.onSubscriptionPayment returns or throws
WebhookAuthCallback(d, throws) ==
    /\ wh[d].pc = "authCallback"
    /\ Finish(d, [wh[d] EXCEPT !.called = TRUE, !.threw = throws,
                               !.cbSub = wh[d].sub,
                               !.cbStatus = wh[d].mp.status], AfterCallback(throws))
    /\ UNCHANGED << probe, cancel, subsVars, variant, options, now, ticks, store, attempts, nextId,
                    payments, splits, customers, mpPayments, mpPrefs, mpCalls, cp >>

\* a preapproval comes to exist at the provider without createSubscription
ProviderPreapprove(s, ref) ==
    /\ ~mpPreapprovals[s].exists
    /\ mpPreapprovals' = [mpPreapprovals EXCEPT ![s] =
            [ exists |-> TRUE, status |-> "pending", reason |-> "",
              external_reference |-> ref ]]
    /\ UNCHANGED << probe, cancel, variant, options, now, ticks, store, attempts, nextId, payments,
                    splits, customers, mpPayments, mpPrefs, mpCalls, wh, cp,
                    subscriptions, csub >>

\* the provider moves preapproval s to another status
ProviderPreapprovalChange(s, st) ==
    /\ mpPreapprovals[s].exists
    /\ mpPreapprovals[s].status # st
    /\ mpPreapprovals' = [mpPreapprovals EXCEPT ![s].status = st]
    /\ UNCHANGED << probe, cancel, variant, options, now, ticks, store, attempts, nextId, payments,
                    splits, customers, mpPayments, mpPrefs, mpCalls, wh, cp,
                    subscriptions, csub >>

\* ----------------------------------------------------------- specifications
\* the statuses provider errors carry (0: none)
ProviderErrors == { 0, 404 }
Request(user, items, key, successUrl, mkt) ==
    [ user |-> user, items |-> items, key |-> key, successUrl |-> successUrl,
      failureUrl |-> "", pendingUrl |-> "", marketplace |-> mkt ]

\* a request that gives all three back URLs
RequestUrls(user, successUrl, failureUrl, pendingUrl) ==
    [ Request(user, << Item(100, 1, "ARS") >>, "", successUrl, NoMarketplace)
        EXCEPT !.failureUrl = failureUrl, !.pendingUrl = pendingUrl ]

FixedFee == [ on |-> TRUE, applicationFee |-> 10, applicationFeePercentage |-> 0 ]
WholeFee == [ on |-> TRUE, applicationFee |-> 0, applicationFeePercentage |-> 100 ]

\* the createPayment requests the clients send
Requests ==
    { Request("u1", << Item(100, 1, "ARS") >>, "order-0001", "", NoMarketplace),
      Request("u1", << Item(50, 2, "ARS"), Item(25, 4, "BRL") >>, "",
              "https://mysite.com/success", FixedFee),
      Request("u2", << Item(100, 1, "ARS") >>, "order-0001", "", NoMarketplace),
      Request("u2", << Item(100, 1, "ARS") >>, "", "https://evil.example/paid", WholeFee),
      Request("u1", << Item(100, 1, "USD") >>, "short", "", NoMarketplace),
      Request("", << Item(100, 1, "ARS") >>, "", "", NoMarketplace),
      Request("u2", << Item(100, 1, "ARS"), Item(100, 1, "USD") >>, "", "", NoMarketplace),
      Request("u1", << Item(2000000000, 100, "ARS") >>, "", "", NoMarketplace),
      RequestUrls("u2", "https://mysite.com/success", "https://mysite.com/failed",
                  "https://evil.example/paid"),
      RequestUrls("u1", "https://app.shop.com/ok", "https://evilshop.com/failed",
                  "https://app.shop.com/wait") }

\* the references payments at the provider can carry: none, or one sent with a preference
ProviderRefs == { 0 } \cup { mpPrefs[i].external_reference : i \in 1..Len(mpPrefs) }

NextProviderId == ProviderIds[Len(mpPrefs) + 1]

NoneInFlight ==
    /\ \A d \in Deliveries : wh[d].pc \in { "idle", "done" }
    /\ \A c \in Calls : cp[c].pc \in { "idle", "done" }

\* the awaits of the webhook handler after its first stretch
WebhookSteps(d) ==
    \/ \E ok \in BOOLEAN : WebhookGet(d, ok)
    \/ WebhookFindOne(d)
    \/ WebhookUpdate(d)
    \/ \E throws \in BOOLEAN : WebhookCallback(d, throws)

\* the awaits of the webhook handler on the subscription topics (server.ts)
WebhookSubSteps(d) ==
    \/ \E ok \in BOOLEAN : WebhookPreGet(d, ok)
    \/ WebhookSubFind(d)
    \/ WebhookSubUpdate(d)
    \/ \E throws \in BOOLEAN : WebhookSubCallback(d, throws)
    \/ \E ok \in BOOLEAN : WebhookAuthGet(d, ok)
    \/ WebhookAuthFind(d)
    \/ \E throws \in BOOLEAN : WebhookAuthCallback(d, throws)

\* the awaits of createSubscription after its first stretch
CreateSubSteps(c, preIds) ==
    \/ CreateSubCustFind(c)
    \/ \E ok \in BOOLEAN : CreateSubCustCreate(c, ok)
    \/ CreateSubCustPersist(c)
    \/ \E ok \in BOOLEAN, preId \in preIds : CreateSubPreCreate(c, ok, preId)
    \/ CreateSubPersist(c)

\* the awaits of createPayment after its first stretch
CreateSteps(c, errors, prefIds) ==
    \/ CreateCustFind(c)
    \/ \E ok \in BOOLEAN, status \in errors : CreateCustCreate(c, ok, status)
    \/ CreateCustPersist(c)
    \/ \E ok \in BOOLEAN, status \in errors, prefId \in prefIds :
            CreatePref(c, ok, status, prefId)
    \/ CreatePayPersist(c)
    \/ CreateSplitPersist(c)

\* Webhook reconciliation of a payment one user created: the payment is created, the
\* payer pays, and notifications about the provider's payment p1 are delivered,
\* concurrently, while the provider moves the payment.  Every delivery after the
\* first redelivers the first one's notification.  A request lasts less than a
\* clock step: the clock advances between requests.
InitWebhook ==
    /\ Init
    /\ ~options.trustedOrigins
    /\ ~options.onSubscriptionUpdate
    /\ ~options.onSubscriptionPayment

NextWebhook ==
    \/ /\ wh[1].pc = "idle"
       /\ \/ CreateStart(1, "u1", << Item(100, 1, "ARS") >>, "", "", "", "",
                          IF variant = "server" THEN FixedFee ELSE NoMarketplace)
          \/ CreateSteps(1, { 0 }, PreferenceIds)
    \/ \E n \in Notifications, verdict \in Verdicts :
          /\ cp[1].pc \in { "idle", "done" }
          /\ options.webhookSecret \/ verdict = "true"
          /\ WebhookReceive(1, n[1], n[2], verdict)
    \/ \E d \in Deliveries \ { 1 }, verdict \in Verdicts :
          /\ options.webhookSecret \/ verdict = "true"
          /\ WebhookReceive(d, wh[1].type, wh[1].dataId, verdict)
    \/ \E d \in Deliveries : WebhookSteps(d)
    \/ \E ref \in ProviderRefs, amt \in TxAmounts, st \in ProviderStatuses :
          /\ cp[1].pc \in { "idle", "done" }
          /\ ProviderPay("p1", ref, amt, st)
    \/ \E st \in ProviderStatuses : ProviderChange("p1", st)
    \/ \E dt \in { WebhookTtlMs, WebhookTtlMs + 1 } : NoneInFlight /\ Tick(dt)
    \/ Cleanup

SpecWebhook == InitWebhook /\ [][NextWebhook]_vars

\* Payment creation: concurrent createPayment calls of two users.
InitCreate ==
    /\ Init
    /\ ~options.webhookSecret
    /\ ~options.onPaymentUpdate
    /\ ~options.onSubscriptionUpdate
    /\ ~options.onSubscriptionPayment

NextCreate ==
    \/ \E c \in Calls, r \in Requests :
            CreateStart(c, r.user, r.items, r.key, r.successUrl, r.failureUrl, r.pendingUrl,
                        IF variant = "server" THEN r.marketplace ELSE NoMarketplace)
    \/ \E c \in Calls : CreateSteps(c, ProviderErrors, { NextProviderId })
    \/ \E dt \in { DefaultTtlMs, DefaultTtlMs + 1 } : NoneInFlight /\ Tick(dt)
    \/ Cleanup

SpecCreate == InitCreate /\ [][NextCreate]_vars

\* Subscriptions: a user creates a payment and a subscription, the provider's
\* preapproval changes, a recurring charge is paid, and notifications of every
\* handled topic are delivered; every delivery after the first redelivers the first
\* one's notification.
SubRequest(user, planId, reason, autoRecurring) ==
    [ user |-> user, planId |-> planId, reason |-> reason, autoRecurring |-> autoRecurring ]

\* the createSubscription requests the clients send
SubRequests ==
    { SubRequest("u1", "plan_1", "", FALSE),
      SubRequest("u1", "", "Premium", TRUE),
      SubRequest("u1", "", "Premium", FALSE),
      SubRequest("", "plan_1", "", FALSE) }

\* a reference no record of this plugin carries
ForeignRef == 99

\* the references the provider's payments and preapprovals can carry: none, one sent
\* with a preapproval, or one of another integration
SubscriptionRefs ==
    { 0, ForeignRef }
        \cup { mpPreapprovals[s].external_reference : s \in PreapprovalIds }
        \cup ProviderRefs

SubNotifications ==
    { << "payment", "p1" >>,
      << "subscription_preapproval", "s1" >>,
      << "subscription_preapproval_plan", "s1" >>,
      << "subscription_preapproval", "s2" >>,
      << "subscription_authorized_payment", "p1" >>,
      << "authorized_payment", "p1" >>,
      << "subscription_authorized_payment", "" >> }

SubsIdle ==
    /\ cp[1].pc \in { "idle", "done" }
    /\ csub[1].pc \in { "idle", "done" }

InitSubscription ==
    /\ Init
    /\ ~options.webhookSecret
    /\ ~options.trustedOrigins

NextSubscription ==
    \/ /\ wh[1].pc = "idle"
       /\ csub[1].pc = "idle"
       /\ \/ CreateStart(1, "u1", << Item(100, 1, "ARS") >>, "", "", "", "", NoMarketplace)
          \/ CreateSteps(1, { 0 }, { "p1" })
    \/ /\ wh[1].pc = "idle"
       /\ cp[1].pc \in { "idle", "done" }
       /\ \/ \E r \in SubRequests :
                CreateSubStart(1, r.user, r.planId, r.reason, r.autoRecurring)
          \/ CreateSubSteps(1, PreapprovalIds)
    \/ \E n \in SubNotifications : SubsIdle /\ WebhookReceive(1, n[1], n[2], "true")
    \/ \E d \in Deliveries \ { 1 } : WebhookReceive(d, wh[1].type, wh[1].dataId, "true")
    \/ \E d \in Deliveries : WebhookSteps(d) \/ WebhookSubSteps(d)
    \/ \E ref \in SubscriptionRefs :
          SubsIdle /\ wh[1].pc = "idle" /\ ProviderPay("p1", ref, 100, "approved")
    \/ \E ref \in { 0, ForeignRef } :
          /\ csub[1].pc = "idle" /\ wh[1].pc = "idle"
          /\ ProviderPreapprove("s1", ref)
    \/ \E st \in { "authorized", "cancelled" } : ProviderPreapprovalChange("s1", st)

SpecSubscription == InitSubscription /\ [][NextSubscription]_vars

\* Subscription lifecycle: a user subscribes; signed, badly signed and unsigned
\* notifications about the preapproval and about a recurring charge are delivered
\* while the provider moves the preapproval; the owner, another user or nobody
\* asks to cancel the subscription, or one that does not exist.
InitLifecycle ==
    /\ Init
    /\ ~options.trustedOrigins
    /\ ~options.onPaymentUpdate
    /\ ~options.onSubscriptionPayment

LifecycleNotifications ==
    { << "subscription_preapproval", "s1" >>,
      << "subscription_authorized_payment", "p1" >> }

CancelSteps(k) ==
    \/ CancelFind(k)
    \/ \E ok \in BOOLEAN : CancelMpUpdate(k, ok)
    \/ CancelPersist(k)

NextLifecycle ==
    \/ /\ wh[1].pc = "idle"
       /\ cancel[1].pc = "idle"
       /\ \/ CreateSubStart(1, "u1", "", "Premium", TRUE)
          \/ CreateSubSteps(1, PreapprovalIds)
    \/ \E user \in { "u1", "u2", "" },
          id \in RecordIds(subscriptions) \cup { ForeignRef } :
          /\ csub[1].pc = "done"
          /\ CancelStart(1, user, id)
    \/ CancelSteps(1)
    \/ \E n \in LifecycleNotifications, verdict \in Verdicts :
          /\ csub[1].pc = "done"
          /\ options.webhookSecret \/ verdict = "true"
          /\ WebhookReceive(1, n[1], n[2], verdict)
    \/ \E d \in Deliveries \ { 1 }, verdict \in Verdicts :
          /\ options.webhookSecret \/ verdict = "true"
          /\ WebhookReceive(d, wh[1].type, wh[1].dataId, verdict)
    \/ \E d \in Deliveries :
          \/ \E ok \in BOOLEAN : WebhookPreGet(d, ok)
          \/ WebhookSubFind(d)
          \/ WebhookSubUpdate(d)
          \/ \E throws \in BOOLEAN : WebhookSubCallback(d, throws)
          \/ \E ok \in BOOLEAN : WebhookAuthGet(d, ok)
          \/ WebhookAuthFind(d)
    \/ \E ref \in SubscriptionRefs :
          /\ csub[1].pc = "done" /\ wh[1].pc = "idle"
          /\ ProviderPay("p1", ref, 100, "approved")
    \/ \E st \in { "authorized", "paused" } : ProviderPreapprovalChange("s1", st)
    \/ /\ NoneInFlight
       /\ cancel[1].pc \in { "idle", "done" }
       /\ csub[1].pc \in { "idle", "done" }
       /\ Tick(WebhookTtlMs + 1)

SpecLifecycle == InitLifecycle /\ [][NextLifecycle]_vars

\* Signature verification: verifyWebhookSignature is called on a request's headers,
\* directly and by the webhook endpoint with a secret configured.  The headers are
\* signed as the provider signs them, signed and then changed in one character of
\* the v1 value, or malformed.
Secrets == { "k1", "k2" }
SignedDataIds == { "p1", "p2" }
RequestIds == { "r1", "r-2" }
Timestamps == { "1", "17" }
MutationChars == { "0", "f", "g", ",", "=", EAcute }

\* the x-signature header the provider sends
SignedHeader(secret, dataId, requestId, ts) ==
    Chars("ts=") \o Chars(ts) \o Chars(",v1=")
        \o HmacSha256Hex(Chars(secret), Manifest(Chars(dataId), Chars(requestId), Chars(ts)))

\* where the v1 value starts in that header
V1Offset(ts) == Len(Chars("ts=")) + Len(Chars(ts)) + Len(Chars(",v1="))

\* the header with the character at position pos of its v1 value replaced by ch
Tampered(header, ts, pos, ch) == [ header EXCEPT ![V1Offset(ts) + pos] = ch ]

\* headers that are not of the form ts=...,v1=<digest>
MalformedHeaders(secret, dataId, requestId, ts) ==
    LET digest == HmacSha256Hex(Chars(secret),
                                Manifest(Chars(dataId), Chars(requestId), Chars(ts)))
    IN  { Null, << >>, Chars("garbage"),
          Chars("ts=") \o Chars(ts),
          Chars("v1=") \o digest,
          Chars("ts=") \o Chars(",v1=") \o digest,
          Chars("ts=") \o Chars(ts) \o Chars(",v1="),
          Chars("ts=") \o Chars(ts) \o << ",", " " >> \o Chars("v1=") \o digest,
          Chars("ts=") \o Chars(ts) \o Chars(",v1=") \o SubSeq(digest, 1, DigestLen - 1),
          Chars("ts=") \o Chars(ts) \o Chars(",v1=") \o digest \o << "0" >>,
          Chars("ts=") \o Chars(ts) \o Chars(",v1=") \o << "a", "b", "c" >> }

SignatureProbe(secret, dataId, requestId, ts, xRequestId, shape, xSignature) ==
    [ kind |-> "sig", secret |-> secret, dataId |-> dataId, requestId |-> requestId,
      ts |-> ts, xRequestId |-> xRequestId, shape |-> shape, xSignature |-> xSignature,
      outcome |-> "none" ]

SignatureProbesOf(secret, dataId, requestId, ts) ==
    LET signed == SignedHeader(secret, dataId, requestId, ts)
        changes == { m \in (1..DigestLen) \X MutationChars :
                        signed[V1Offset(ts) + m[1]] # m[2] }
    IN  { SignatureProbe(secret, dataId, requestId, ts, x, "signed", signed) :
            x \in { Chars(requestId), Null } }
        \cup { SignatureProbe(secret, dataId, requestId, ts, Chars(requestId), "tampered",
                              Tampered(signed, ts, m[1], m[2])) : m \in changes }
        \cup { SignatureProbe(secret, dataId, requestId, ts, x[1], "malformed", x[2]) :
                 x \in { Chars(requestId), Null }
                       \X MalformedHeaders(secret, dataId, requestId, ts) }

SignatureProbes ==
    UNION { SignatureProbesOf(q[1], q[2], q[3], q[4]) :
              q \in Secrets \X SignedDataIds \X RequestIds \X Timestamps }

\* the outcome of verifyWebhookSignature on the probe's headers
ProbeVerdict ==
    verifyWebhookSignature(probe.xSignature, probe.xRequestId, Chars(probe.dataId),
                           Chars(probe.secret))

\* verifyWebhookSignature is called
VerifySignature ==
    /\ probe.kind = "sig"
    /\ probe.outcome = "none"
    /\ probe' = [probe EXCEPT !.outcome = ProbeVerdict]
    /\ UNCHANGED << cancel, subsVars, variant, options, now, ticks, store, attempts, nextId,
                    payments, splits, customers, mpPayments, mpPrefs, mpCalls, wh, cp >>

\* a payment notification arrives with the probe's headers
SignedDelivery ==
    /\ probe.kind = "sig"
    /\ WebhookReceive(1, "payment", probe.dataId, ProbeVerdict)

InitSignature ==
    /\ Construction
    /\ options = [ webhookSecret |-> TRUE, onPaymentUpdate |-> FALSE,
                   trustedOrigins |-> FALSE, onSubscriptionUpdate |-> FALSE,
                   onSubscriptionPayment |-> FALSE ]
    /\ probe \in SignatureProbes

NextSignature ==
    \/ VerifySignature
    \/ SignedDelivery
    \/ \E ok \in BOOLEAN : WebhookGet(1, ok)

SpecSignature == InitSignature /\ [][NextSignature]_vars

\* The idempotency store and the rate limiter called directly, as the handlers call
\* them, while time passes and the periodic cleanup runs.  The probe keeps what was
\* asked of them: the last set of every key, the windows as the calls open them.
StoreKeys == { "k1", "k2" }
StoreValues == { "a", "b" }
StoreTtls == { 0, 2 }
RateKeys == { "webhook:global", "payment:create:u1" }
RateLimits == { 1, 2, 3 }
RateWindows == { 1, 2 }

NeverSet == [ any |-> FALSE, value |-> "", at |-> 0, ttl |-> 0 ]
NoGet == [ key |-> "", at |-> 0, result |-> Null, set |-> NeverSet ]

\* Date.now() advances
Elapse(dt) ==
    /\ now + dt <= MaxNow
    /\ now' = now + dt
    /\ UNCHANGED << probe, cancel, subsVars, variant, options, ticks, store, attempts, nextId,
                    payments, splits, customers, mpPayments, mpPrefs, mpCalls, wh, cp >>

\* idempotencyStore.set(key, value, ttl)
StoreSet(key, value, ttl) ==
    /\ probe.kind = "store"
    /\ store' = IdemSet(store, key, value, ttl, now)
    /\ probe' = [probe EXCEPT !.sets[key] =
                    [ any |-> TRUE, value |-> value, at |-> now, ttl |-> ttl ]]
    /\ UNCHANGED << cancel, subsVars, variant, options, now, ticks, attempts, nextId, payments,
                    splits, customers, mpPayments, mpPrefs, mpCalls, wh, cp >>

\* idempotencyStore.get(key)
StoreGet(key) ==
    /\ probe.kind = "store"
    /\ store' = IdemAfterGet(store, key, now)
    /\ probe' = [probe EXCEPT !.got =
                    [ key |-> key, at |-> now,
                      result |-> IF IdemHas(store, key, now) THEN IdemGet(store, key, now)
                                 ELSE Null,
                      set |-> probe.sets[key] ]]
    /\ UNCHANGED << cancel, subsVars, variant, options, now, ticks, attempts, nextId, payments,
                    splits, customers, mpPayments, mpPrefs, mpCalls, wh, cp >>

InitStore ==
    /\ Construction
    /\ variant = "server"
    /\ options = [ webhookSecret |-> FALSE, onPaymentUpdate |-> FALSE,
                   trustedOrigins |-> FALSE, onSubscriptionUpdate |-> FALSE,
                   onSubscriptionPayment |-> FALSE ]
    /\ probe = [ kind |-> "store", sets |-> [ k \in StoreKeys |-> NeverSet ],
                 got |-> NoGet ]

NextStore ==
    \/ \E k \in StoreKeys, v \in StoreValues, ttl \in StoreTtls : StoreSet(k, v, ttl)
    \/ \E k \in StoreKeys : StoreGet(k)
    \/ \E dt \in { 1, 2 } : Elapse(dt)
    \/ Cleanup

SpecStore == InitStore /\ [][NextStore]_vars

NoWindow == [ any |-> FALSE, at |-> 0, n |-> 0 ]
NoCheck == [ key |-> "", at |-> 0, allowed |-> FALSE, n |-> 0, before |-> 0 ]

\* rateLimiter.check(key, limit, window)
RateCheck(key) ==
    /\ probe.kind = "rate"
    /\ LET w == probe.windows[key]
           over == WindowOver(w, probe.window, now)
       IN  /\ over \/ w.n < probe.limit + MaxExcess
           /\ attempts' = RateAfter(attempts, key, probe.limit, probe.window, now)
           /\ probe' = [probe EXCEPT
                  !.windows[key] = IF over THEN [ any |-> TRUE, at |-> now, n |-> 1 ]
                                   ELSE [ w EXCEPT !.n = @ + 1 ],
                  !.last = [ key |-> key, at |-> now,
                             allowed |-> RateAllowed(attempts, key, probe.limit,
                                                     probe.window, now),
                             n |-> IF over THEN 1 ELSE w.n + 1,
                             before |-> IF over THEN w.n ELSE 0 ]]
    /\ UNCHANGED << cancel, subsVars, variant, options, now, ticks, store, nextId, payments,
                    splits, customers, mpPayments, mpPrefs, mpCalls, wh, cp >>

InitRate ==
    /\ Construction
    /\ variant = "server"
    /\ options = [ webhookSecret |-> FALSE, onPaymentUpdate |-> FALSE,
                   trustedOrigins |-> FALSE, onSubscriptionUpdate |-> FALSE,
                   onSubscriptionPayment |-> FALSE ]
    /\ probe \in [ kind : { "rate" }, limit : RateLimits, window : RateWindows,
                   windows : { [ k \in RateKeys |-> NoWindow ] }, last : { NoCheck } ]

NextRate ==
    \/ \E k \in RateKeys : RateCheck(k)
    \/ \E dt \in { 1, 2 } : Elapse(dt)
    \/ Cleanup

SpecRate == InitRate /\ [][NextRate]_vars

\* sanitizeMetadata called directly on metadata objects of two entries: scalars,
\* strings around the length limit, arrays, objects and objects in objects, under
\* plain and under polluting keys.
MetadataKeys == { "orderId", "__proto__", "constructor", "prototype" }

MetadataLeaves ==
    { JsonString("note", MaxStringLength), JsonString("note", MaxStringLength + 1),
      JsonString("note", 6000), JsonNumber(7), JsonNull }

MetadataArrays ==
    { JsonArray(<< >>) }
        \cup { JsonArray(<< a >>) : a \in MetadataLeaves }
        \cup { JsonArray(<< JsonNumber(1), a >>) : a \in MetadataLeaves }

MetadataObjects ==
    { JsonObject(<< Entry(k, a) >>) : k \in MetadataKeys, a \in MetadataLeaves }
        \cup { JsonObject(<< Entry("inner", JsonObject(<< Entry(k, a) >>)) >>) :
                 k \in MetadataKeys, a \in MetadataLeaves }

MetadataValues == MetadataLeaves \cup MetadataArrays \cup MetadataObjects

MetadataInputs ==
    { JsonObject(<< Entry(k, a), Entry("extra", b) >>) :
        k \in MetadataKeys, a \in MetadataValues, b \in MetadataLeaves \cup MetadataArrays }

\* sanitizeMetadata is called
SanitizeMetadata ==
    /\ probe.kind = "metadata"
    /\ ~probe.done
    /\ probe' = [probe EXCEPT !.done = TRUE, !.output = sanitizeMetadata(probe.input)]
    /\ UNCHANGED << cancel, subsVars, variant, options, now, ticks, store, attempts, nextId,
                    payments, splits, customers, mpPayments, mpPrefs, mpCalls, wh, cp >>

InitSanitize ==
    /\ Construction
    /\ variant = "server"
    /\ options = [ webhookSecret |-> FALSE, onPaymentUpdate |-> FALSE,
                   trustedOrigins |-> FALSE, onSubscriptionUpdate |-> FALSE,
                   onSubscriptionPayment |-> FALSE ]
    /\ \E input \in MetadataInputs :
          probe = [ kind |-> "metadata", input |-> input, done |-> FALSE,
                    output |-> JsonNull ]

NextSanitize == SanitizeMetadata

SpecSanitize == InitSanitize /\ [][NextSanitize]_vars

\* References: two users create a payment each, concurrently; a payer pays one of
\* the preferences, the provider moves the payment, and notifications about it are
\* delivered and redelivered.
InitReference ==
    /\ Init
    /\ ~options.webhookSecret
    /\ ~options.trustedOrigins
    /\ ~options.onPaymentUpdate
    /\ ~options.onSubscriptionUpdate
    /\ ~options.onSubscriptionPayment

NextReference ==
    \/ \E c \in Calls :
          CreateStart(c, IF c = 1 THEN "u1" ELSE "u2", << Item(100, 1, "ARS") >>,
                      "", "", "", "",
                      IF variant = "server" THEN FixedFee ELSE NoMarketplace)
    \/ \E c \in Calls : CreateSteps(c, { 0 }, { NextProviderId })
    \/ \E d \in Deliveries : WebhookReceive(d, "payment", "p1", "true")
    \/ \E d \in Deliveries, ok \in BOOLEAN : WebhookGet(d, ok)
    \/ \E d \in Deliveries : WebhookFindOne(d)
    \/ \E d \in Deliveries : WebhookUpdate(d)
    \/ \E ref \in ProviderRefs \ { 0 } : ProviderPay("p1", ref, 100, "approved")
    \/ ProviderChange("p1", "refunded")

SpecReference == InitReference /\ [][NextReference]_vars

\* the webhook handler on a request whose topic it does not process: the limiter
\* counts the request, and the answer is TOO_MANY_REQUESTS or the acknowledgement
WebhookIgnored ==
    /\ attempts' = RateAfter(attempts, WebhookRateKey, WebhookMaxAttempts, WebhookWindowMs, now)
    /\ UNCHANGED << probe, cancel, subsVars, variant, options, now, ticks, store, nextId,
                    payments, splits, customers, mpPayments, mpPrefs, mpCalls, wh, cp >>

\* Webhook flood: a user creates a payment and the payer pays it; the provider then
\* sends notifications on topics the plugin ignores, one request after another, and
\* among them the notification about the payment, delivered and redelivered, while
\* the limiter's window runs out and the stores are swept.
InitFlood == InitReference

NextFlood ==
    \/ CreateStart(1, "u1", << Item(100, 1, "ARS") >>, "", "", "", "",
                   IF variant = "server" THEN FixedFee ELSE NoMarketplace)
    \/ CreateSteps(1, { 0 }, { NextProviderId })
    \/ \E ref \in ProviderRefs \ { 0 } :
          cp[1].pc = "done" /\ ProviderPay("p1", ref, 100, "approved")
    \/ mpPayments["p1"].exists /\ WebhookIgnored
    \/ \E d \in Deliveries :
          mpPayments["p1"].exists /\ WebhookReceive(d, "payment", "p1", "true")
    \/ \E d \in Deliveries, ok \in BOOLEAN : WebhookGet(d, ok)
    \/ \E d \in Deliveries : WebhookFindOne(d)
    \/ \E d \in Deliveries : WebhookUpdate(d)
    \/ \E dt \in { WebhookWindowMs, WebhookWindowMs + 1 } : Tick(dt)
    \/ Cleanup

SpecFlood == InitFlood /\ [][NextFlood]_vars

\* Sweeps: the idempotency store and the rate limiter are called directly while time
\* passes and the two interval timers sweep them; beside them run a store and a
\* limiter that get the same calls and are never swept.
SweepLimit == 2         \* maxAttempts of the direct rateLimiter.check calls of the sweeps

\* idempotencyStore.set(key, value, ttl), on the swept store and the unswept one
SweepSet(key, value, ttl) ==
    /\ probe.kind = "sweep"
    /\ store' = IdemSet(store, key, value, ttl, now)
    /\ probe' = [probe EXCEPT !.store = IdemSet(probe.store, key, value, ttl, now)]
    /\ UNCHANGED << cancel, subsVars, variant, options, now, ticks, attempts, nextId, payments,
                    splits, customers, mpPayments, mpPrefs, mpCalls, wh, cp >>

\* idempotencyStore.get(key), on both: the answers are recorded
SweepGet(key) ==
    /\ probe.kind = "sweep"
    /\ store' = IdemAfterGet(store, key, now)
    /\ probe' = [probe EXCEPT
            !.store = IdemAfterGet(probe.store, key, now),
            !.gets = @ \cup
                { [ hit |-> IdemHas(store, key, now),
                    value |-> IF IdemHas(store, key, now) THEN IdemGet(store, key, now)
                              ELSE "",
                    unsweptHit |-> IdemHas(probe.store, key, now),
                    unsweptValue |-> IF IdemHas(probe.store, key, now)
                                     THEN IdemGet(probe.store, key, now) ELSE "" ] }]
    /\ UNCHANGED << cancel, subsVars, variant, options, now, ticks, attempts, nextId, payments,
                    splits, customers, mpPayments, mpPrefs, mpCalls, wh, cp >>

\* rateLimiter.check(key, SweepLimit, window), on both: the answers are recorded
SweepCheck(key, window) ==
    /\ probe.kind = "sweep"
    /\ attempts' = RateAfter(attempts, key, SweepLimit, window, now)
    /\ probe' = [probe EXCEPT
            !.attempts = RateAfter(probe.attempts, key, SweepLimit, window, now),
            !.checks = @ \cup
                { [ allowed |-> RateAllowed(attempts, key, SweepLimit, window, now),
                    unsweptAllowed |-> RateAllowed(probe.attempts, key, SweepLimit,
                                                   window, now) ] }]
    /\ UNCHANGED << cancel, subsVars, variant, options, now, ticks, store, nextId, payments,
                    splits, customers, mpPayments, mpPrefs, mpCalls, wh, cp >>

\* setInterval(() => idempotencyStore.cleanup(), ...)
StoreCleanup ==
    /\ probe.kind = "sweep"
    /\ store' = IdemCleanup(store, now)
    /\ UNCHANGED << probe, cancel, subsVars, variant, options, now, ticks, attempts, nextId,
                    payments, splits, customers, mpPayments, mpPrefs, mpCalls, wh, cp >>

\* setInterval(() => rateLimiter.cleanup(), ...)
LimiterCleanup ==
    /\ probe.kind = "sweep"
    /\ attempts' = RateCleanup(attempts, now)
    /\ UNCHANGED << probe, cancel, subsVars, variant, options, now, ticks, store, nextId,
                    payments, splits, customers, mpPayments, mpPrefs, mpCalls, wh, cp >>

InitSweep ==
    /\ Construction
    /\ variant = "server"
    /\ options = [ webhookSecret |-> FALSE, onPaymentUpdate |-> FALSE,
                   trustedOrigins |-> FALSE, onSubscriptionUpdate |-> FALSE,
                   onSubscriptionPayment |-> FALSE ]
    /\ probe = [ kind |-> "sweep", store |-> << >>, attempts |-> << >>,
                 gets |-> {}, checks |-> {} ]

NextSweep ==
    \/ \E k \in StoreKeys, v \in StoreValues, ttl \in StoreTtls : SweepSet(k, v, ttl)
    \/ \E k \in StoreKeys : SweepGet(k)
    \/ \E w \in RateWindows : SweepCheck(WebhookRateKey, w)
    \/ \E dt \in { 1, 2 } : Elapse(dt)
    \/ StoreCleanup
    \/ LimiterCleanup

SpecSweep == InitSweep /\ [][NextSweep]_vars

\* Creation limits: two users call createPayment again and again, with a valid body
\* or with an idempotency key that is no key, while time passes.  A request that was
\* answered is over; the calls each user made in the running window are counted.
LimitUsers == { "u1", "u2" }
MaxPreferences == 2     \* preferences created in one behaviour of the creation limits

\* the calls a user makes in one window
MaxWindowCalls(user) == IF user = "u1" THEN CreateMaxAttempts + MaxExcess ELSE MaxExcess

\* the request was answered and is over
CreateOver(c) ==
    /\ cp[c].pc = "done"
    /\ cp' = [cp EXCEPT ![c] = IdleCall]
    /\ UNCHANGED << probe, cancel, subsVars, variant, options, now, ticks, store, attempts,
                    nextId, payments, splits, customers, mpPayments, mpPrefs, mpCalls, wh >>

InitLimit ==
    /\ Construction
    /\ options = [ webhookSecret |-> FALSE, onPaymentUpdate |-> FALSE,
                   trustedOrigins |-> FALSE, onSubscriptionUpdate |-> FALSE,
                   onSubscriptionPayment |-> FALSE ]
    /\ probe = [ kind |-> "limit", windows |-> [ u \in LimitUsers |-> NoWindow ] ]

NextLimit ==
    \/ \E c \in Calls, user \in LimitUsers, key \in { "", "short" } :
          /\ \/ WindowOver(probe.windows[user], CreateWindowMs, now)
             \/ probe.windows[user].n < MaxWindowCalls(user)
          /\ key = "" =>
                Len(mpPrefs) + Cardinality({ x \in Calls : cp[x].pc \notin { "idle", "done" } })
                    < MaxPreferences
          /\ CreateStart(c, user, << Item(100, 1, "ARS") >>, key, "", "", "", NoMarketplace)
    \/ \E c \in Calls : CreateCustFind(c)
    \/ \E c \in Calls : CreateCustCreate(c, TRUE, 0)
    \/ \E c \in Calls : CreateCustPersist(c)
    \/ \E c \in Calls : CreatePref(c, TRUE, 0, NextProviderId)
    \/ \E c \in Calls : CreatePayPersist(c)
    \/ \E c \in Calls : CreateOver(c)
    \/ \E dt \in { CreateWindowMs, CreateWindowMs + 1 } : NoneInFlight /\ Tick(dt)

SpecLimit == InitLimit /\ [][NextLimit]_vars

\* Key domains: a user calls createPayment with idempotency keys, among them keys
\* spelled like the deduplication keys of the webhook handlers, while notifications
\* are delivered and redelivered.
KeyTopics == { "payment", "merchant_order" }
KeyDataIds == { "p1", "order-0001" }

\* the deduplication keys either handler derives from those notifications
WebhookKeys ==
    { WebhookKey(v, dataId, type) : v \in Variants, dataId \in KeyDataIds, type \in KeyTopics }

KeyCandidates == { "order-0001", "webhook-p1-payment" } \cup WebhookKeys

InitKeys ==
    /\ Init
    /\ options = [ webhookSecret |-> FALSE, onPaymentUpdate |-> FALSE,
                   trustedOrigins |-> FALSE, onSubscriptionUpdate |-> FALSE,
                   onSubscriptionPayment |-> FALSE ]

NextKeys ==
    \/ \E c \in Calls, key \in KeyCandidates :
          CreateStart(c, "u1", << Item(100, 1, "ARS") >>, key, "", "", "", NoMarketplace)
    \/ \E c \in Calls : CreateCustFind(c)
    \/ \E c \in Calls : CreateCustCreate(c, TRUE, 0)
    \/ \E c \in Calls : CreateCustPersist(c)
    \/ \E c \in Calls : CreatePref(c, TRUE, 0, NextProviderId)
    \/ \E c \in Calls : CreatePayPersist(c)
    \/ \E d \in Deliveries, type \in KeyTopics, dataId \in KeyDataIds :
          WebhookReceive(d, type, dataId, "true")
    \/ \E d \in Deliveries, ok \in BOOLEAN : WebhookGet(d, ok)

SpecKeys == InitKeys /\ [][NextKeys]_vars

\* ------------------------------------------------- getPayment, list endpoints
\* adapter.findOne on mercadoPagoPayment where id = ... and userId = ...
FindOwnPaymentAnyOwner(tbl, id, userId) == FindPaymentBy(tbl, "id", id)

FindOwnPayment(tbl, id, userId) ==
    LET hits == { i \in 1..Len(tbl) : tbl[i].id = id /\ tbl[i].userId = userId }
    IN  IF hits = {} THEN NoRecord
        ELSE tbl[CHOOSE i \in hits : \A j \in hits : i <= j]

\* adapter.findMany where userId = ..., with limit and offset
FindManyOf(tbl, userId, limit, offset) ==
    LET own == SelectSeq(tbl, LAMBDA r : r.userId = userId)
    IN  SubSeq(own, offset + 1, IF offset + limit < Len(own) THEN offset + limit ELSE Len(own))

NoRead == [ endpoint |-> "", user |-> "", id |-> 0, resp |-> "", records |-> << >> ]

\* the answer of a read endpoint is kept
Answer(endpoint, user, id, resp, records) ==
    /\ probe.kind = "read"
    /\ variant = "server"
    /\ probe' = [probe EXCEPT !.last =
            [ endpoint |-> endpoint, user |-> user, id |-> id, resp |-> resp,
              records |-> records ]]
    /\ UNCHANGED << cancel, subsVars, variant, options, now, ticks, store, attempts, nextId,
                    payments, splits, customers, mpPayments, mpPrefs, mpCalls, wh, cp >>

\* GET /mercado-pago/payment/:id
GetPayment(user, id) ==
    LET payment == FindOwnPayment(payments, id, user)
    IN  IF user = "" THEN Answer("getPayment", user, id, "UNAUTHORIZED", << >>)
        ELSE IF payment.id = 0 THEN Answer("getPayment", user, id, "NOT_FOUND", << >>)
        ELSE Answer("getPayment", user, id, "ok", << payment >>)

\* GET /mercado-pago/payments
ListPayments(user, limit, offset) ==
    IF user = "" THEN Answer("listPayments", user, 0, "UNAUTHORIZED", << >>)
    ELSE Answer("listPayments", user, 0, "ok", FindManyOf(payments, user, limit, offset))

\* GET /mercado-pago/subscriptions
ListSubscriptions(user) ==
    IF user = "" THEN Answer("listSubscriptions", user, 0, "UNAUTHORIZED", << >>)
    ELSE Answer("listSubscriptions", user, 0, "ok",
                FindManyOf(subscriptions, user, Len(subscriptions), 0))

\* Access: two users create a payment each and one of them a subscription; either
\* user, or a caller without a session, reads payments and subscriptions by id and
\* by list and cancels subscriptions, of ids that exist and of one that does not.
Readers == { "u1", "u2", "" }

InitAccess ==
    /\ Construction
    /\ variant = "server"
    /\ options = [ webhookSecret |-> FALSE, onPaymentUpdate |-> FALSE,
                   trustedOrigins |-> FALSE, onSubscriptionUpdate |-> FALSE,
                   onSubscriptionPayment |-> FALSE ]
    /\ probe = [ kind |-> "read", last |-> NoRead ]

NextAccess ==
    \/ \E c \in Calls :
          /\ csub[1].pc = "idle"
          /\ CreateStart(c, IF c = 1 THEN "u1" ELSE "u2", << Item(100, 1, "ARS") >>,
                         "", "", "", "", NoMarketplace)
    \/ \E c \in Calls : CreateCustFind(c)
    \/ \E c \in Calls : CreateCustCreate(c, TRUE, 0)
    \/ \E c \in Calls : CreateCustPersist(c)
    \/ \E c \in Calls : CreatePref(c, TRUE, 0, NextProviderId)
    \/ \E c \in Calls : CreatePayPersist(c)
    \/ /\ \A c \in Calls : cp[c].pc = "done"
       /\ CreateSubStart(1, "u1", "", "Premium", TRUE)
    \/ CreateSubCustFind(1)
    \/ CreateSubPreCreate(1, TRUE, "s1")
    \/ CreateSubPersist(1)
    \/ \E user \in Readers, id \in RecordIds(payments) \cup { ForeignRef } :
          GetPayment(user, id)
    \/ \E user \in Readers, limit \in { 1, 10 }, offset \in { 0, 1 } :
          ListPayments(user, limit, offset)
    \/ \E user \in Readers : ListSubscriptions(user)
    \/ \E user \in Readers, id \in RecordIds(subscriptions) \cup { ForeignRef } :
          /\ csub[1].pc = "done"
          /\ CancelStart(1, user, id)
    \/ CancelSteps(1)

SpecAccess == InitAccess /\ [][NextAccess]_vars

Next ==
    \/ NextWebhook \/ NextCreate \/ NextSubscription \/ NextLifecycle
    \/ NextSignature \/ NextStore \/ NextRate \/ NextSanitize \/ NextReference \/ NextLimit \/ NextKeys \/ NextAccess \/ NextFlood \/ NextSweep

Spec == Init /\ [][Next]_vars

\* ------------------------------------------------------- webhook properties
Received(d) == wh[d].pc # "idle"

\* the delivery is past the deduplication check and not yet answered
InFlight(d) == wh[d].pc \in { "get", "findOne", "update", "callback" }

\* e is a later delivery of the notification d delivered
Redelivers(d, e) ==
    /\ d < e
    /\ Received(d)
    /\ Received(e)
    /\ wh[e].type = wh[d].type
    /\ wh[e].dataId = wh[d].dataId

\* e arrived no later than 24 hours after d
Within24h(d, e) == wh[e].at - wh[d].at <= WebhookTtlMs

\* the delivery was not turned away by the rate limiter
Admitted(d) == wh[d].resp # "TOO_MANY_REQUESTS"

TopicPassed(d) == ~TopicRejected(variant, wh[d].type, wh[d].dataId)

SignaturePassed(d) == ~options.webhookSecret \/ wh[d].sig

\* the record the delivery correlated differs from the fetched amount by more than 0.01
Mismatch(d) ==
    /\ wh[d].existing.id # 0
    /\ Abs(wh[d].existing.amount - wh[d].mp.transaction_amount) > AmountTolerance

\* the delivery fetched the payment and correlated a record of the same amount
Reconcilable(d) ==
    /\ wh[d].fetchOk
    /\ wh[d].existing.id # 0
    /\ ~Mismatch(d)

Updates(S) == Cardinality({ d \in S : wh[d].updated })

Callbacks(S) == Cardinality({ d \in S : wh[d].called })

\* the local record the provider's payment p correlates with, NoRecord if none
LocalRecord(p) ==
    IF p \in PaymentIds THEN Correlate(variant, payments, p, mpPayments[p]) ELSE NoRecord

\* C1 (as stated): if the same notification (same data.id and type) is received twice
\* within 24 hours and the first delivery passed the topic and signature checks,
\* then across both deliveries the correlated local record is updated exactly once,
\* the callback is invoked exactly once, and the second delivery is answered with
\* the success acknowledgment.  Read for a payment notification whose first
\* delivery fetched the payment and correlated a local record, with a callback
\* configured, once both deliveries are answered.
C1_ExactlyOnce ==
    \A d, e \in Deliveries :
        ( /\ Redelivers(d, e)
          /\ Within24h(d, e)
          /\ Admitted(d) /\ TopicPassed(d) /\ SignaturePassed(d)
          /\ wh[d].type = "payment"
          /\ wh[d].fetchOk
          /\ wh[d].existing.id # 0
          /\ options.onPaymentUpdate
          /\ wh[d].pc = "done"
          /\ wh[e].pc = "done" )
        => /\ Updates({ d, e }) = 1
           /\ Callbacks({ d, e }) = 1
           /\ wh[e].resp = Ack

\* C1 (amended): if the same notification is received twice within 24 hours and the
\* first delivery passed the rate limit, the topic and signature checks and the
\* deduplication check, then the second delivery does not pass the deduplication
\* check, so across both deliveries the record is updated at most once and the
\* callback is invoked at most once: exactly once each when the first delivery
\* fetched the payment and correlated a record of the same amount (the callback
\* when one is due); and the second delivery, when it passes the rate limit and
\* the signature check, is answered with the success acknowledgment.
C1_AtMostOnce ==
    \A d, e \in Deliveries :
        ( /\ Redelivers(d, e)
          /\ Within24h(d, e)
          /\ wh[d].marked )
        => /\ ~wh[e].marked
           /\ Updates({ d, e }) <= 1
           /\ Callbacks({ d, e }) <= 1
           /\ (wh[d].pc = "done" /\ Reconcilable(d))
                => /\ Updates({ d, e }) = 1
                   /\ CallbackDue(variant, options, wh[d].mp) => Callbacks({ d, e }) = 1
           /\ (Admitted(e) /\ SignaturePassed(e))
                => wh[e].pc = "done" /\ wh[e].resp = Ack

\* C1 witness: a redelivery arriving exactly 24 hours after a delivery that updated
\* the record and invoked the callback is acknowledged without processing
C1_Witness ==
    \E d, e \in Deliveries :
        /\ Redelivers(d, e)
        /\ wh[e].at = wh[d].at + WebhookTtlMs
        /\ wh[d].marked /\ wh[d].updated /\ wh[d].called
        /\ wh[e].pc = "done" /\ wh[e].resp = Ack /\ ~wh[e].updated

\* C2: of two deliveries of the same notification in flight at the same time, at
\* most one passes the deduplication check and runs the fetch, update and callback
\* steps: while a delivery is between its deduplication check and its answer, in
\* whatever step, every later delivery of its notification has been answered
\* without passing the check and has fetched, updated and called nothing.
C2_OnePassesDedup ==
    \A d, e \in Deliveries :
        (Redelivers(d, e) /\ InFlight(d))
        => /\ ~wh[e].marked
           /\ ~InFlight(e)
           /\ ~wh[e].fetchOk /\ ~wh[e].updated /\ ~wh[e].called

\* C2 witness: a redelivery was acknowledged while the first delivery awaits the callback
C2_Witness ==
    \E d, e \in Deliveries :
        /\ Redelivers(d, e)
        /\ wh[d].pc = "callback"
        /\ wh[e].pc = "done" /\ wh[e].resp = Ack

\* C3 (as stated): whenever the provider has changed a payment's status and a
\* notification for it arrives (carrying the data.id and type of an earlier
\* notification that was reconciled), handling it re-fetches the payment.  Read
\* for a notification that passes the rate limit and the signature check while no
\* other delivery is in flight, the local record of the same amount showing a
\* status other than the provider's.
C3_RefetchOnChange ==
    [][ \A e \in Deliveries :
          ( /\ wh[e].pc = "idle"
            /\ wh'[e].pc # "idle"
            /\ wh'[e].type = "payment"
            /\ wh'[e].dataId \in PaymentIds
            /\ wh'[e].resp # "TOO_MANY_REQUESTS"
            /\ ~options.webhookSecret \/ wh'[e].sig
            /\ \A d \in Deliveries : ~InFlight(d)
            /\ \E d \in Deliveries :
                  /\ d < e /\ wh[d].updated
                  /\ wh[d].type = wh'[e].type /\ wh[d].dataId = wh'[e].dataId
            /\ LET mp == mpPayments[wh'[e].dataId]
                   rec == LocalRecord(wh'[e].dataId)
               IN  /\ mp.exists
                   /\ mp.status # ""
                   /\ rec.id # 0
                   /\ Abs(rec.amount - mp.transaction_amount) <= AmountTolerance
                   /\ rec.status # mp.status )
          => wh'[e].pc = "get" ]_vars

\* C4 (as stated): the webhook answers with a failure only when the rate limit is
\* exceeded or the signature is invalid (the handler cannot find the body
\* malformed); every other outcome is answered with the success acknowledgment.
C4_FailureOnlyWhenRejected ==
    \A d \in Deliveries :
        wh[d].pc = "done"
        => \/ wh[d].resp = Ack
           \/ wh[d].resp = "TOO_MANY_REQUESTS"
           \/ wh[d].resp # Ack /\ options.webhookSecret /\ ~wh[d].sig

\* C5: with a webhook secret configured, a notification with a recognized topic
\* and a data id that passes the rate limit and whose signature does not verify is
\* rejected with UNAUTHORIZED and fetches, updates, calls and marks nothing: every
\* provider fetch and every deduplication mark belongs to a delivery that passed
\* the signature check, and a correctly signed delivery is answered as a duplicate
\* only of an earlier correctly signed delivery.
C5_InvalidSignatureRejected ==
    /\ \A d \in Deliveries :
          ( /\ Received(d) /\ Admitted(d) /\ TopicPassed(d)
            /\ options.webhookSecret /\ ~wh[d].sig )
          => /\ wh[d].pc = "done"
             /\ wh[d].resp = "UNAUTHORIZED"
             /\ ~wh[d].marked /\ ~wh[d].fetchOk /\ ~wh[d].updated /\ ~wh[d].called
    /\ \A d \in Deliveries :
          ( /\ Received(d) /\ Admitted(d) /\ TopicPassed(d) /\ SignaturePassed(d)
            /\ ~wh[d].marked )
          => \E c \in Deliveries :
                /\ Redelivers(c, d) /\ Within24h(c, d)
                /\ wh[c].marked /\ SignaturePassed(c)
    /\ mpCalls.paymentGet =
          Cardinality({ d \in Deliveries :
                          wh[d].marked /\ wh[d].type = "payment" /\ SignaturePassed(d) })
    /\ \A k \in DOMAIN store :
          \E d \in Deliveries :
              /\ wh[d].marked /\ SignaturePassed(d)
              /\ k = WebhookKey(variant, wh[d].dataId, wh[d].type)

\* C5 witness: after a delivery was rejected for its signature, a correctly signed
\* delivery of the same notification updated the record
C5_Witness ==
    \E d, e \in Deliveries :
        /\ Redelivers(d, e)
        /\ options.webhookSecret /\ ~wh[d].sig
        /\ wh[d].resp = "UNAUTHORIZED"
        /\ wh[e].sig /\ wh[e].marked /\ wh[e].updated

\* C6: when a payment notification correlates with a local record whose amount
\* differs from the provider's transaction amount by more than 0.01, the handler
\* stops: the record stays exactly as it was found and the callback is not invoked.
C6_MismatchLeavesRecord ==
    \A d \in Deliveries :
        Mismatch(d)
        => /\ wh[d].pc = "done"
           /\ ~wh[d].updated
           /\ ~wh[d].called
           /\ FindPaymentBy(payments, "id", wh[d].existing.id) = wh[d].existing

\* C6 witness: a delivery found the record 0.02 away from the provider's amount
C6_Witness ==
    \E d \in Deliveries :
        /\ wh[d].pc = "done"
        /\ wh[d].fetchOk
        /\ wh[d].existing.id # 0
        /\ wh[d].mp.transaction_amount - wh[d].existing.amount = 2 * AmountTolerance

\* C7 (as stated): when the provider fetch fails while a payment notification is
\* reconciled, the notification is acknowledged, and a later redelivery of the
\* notification (passing the rate limit and the signature check) triggers a fresh
\* fetch.
C7_RedeliveryRefetches ==
    \A d, e \in Deliveries :
        ( /\ wh[d].pc = "done" /\ wh[d].type = "payment"
          /\ wh[d].marked /\ ~wh[d].fetchOk
          /\ Redelivers(d, e) /\ Admitted(e) /\ SignaturePassed(e) )
        => /\ wh[d].resp = Ack
           /\ wh[e].marked

\* ------------------------------------------------- createPayment properties
\* the call was authenticated and not turned away by the rate limiter
Admissible(c) == cp[c].user # "" /\ cp[c].resp # "TOO_MANY_REQUESTS"

SameBody(a, b) ==
    /\ cp[a].items = cp[b].items
    /\ cp[a].successUrl = cp[b].successUrl
    /\ cp[a].marketplace = cp[b].marketplace

\* the call created a preference and a record and answered with them
Created(c) == cp[c].pc = "done" /\ cp[c].resp = "ok" /\ ~cp[c].cached

\* the calls answered before b was made that created under b's key
CreatedBefore(b) == { c \in cp[b].after : Created(c) /\ cp[c].key = cp[b].key }

\* the sum of unitPrice x quantity over the first n items
RECURSIVE ItemsSum(_, _)
ItemsSum(items, n) ==
    IF n = 0 THEN 0
    ELSE ItemsSum(items, n - 1) + items[n].unitPrice * items[n].quantity

\* C8: if a createPayment call with a valid idempotency key completes successfully
\* and a second call with the same key and an identical body is made afterwards
\* within 24 hours (authenticated and within the rate limit, the first being the
\* only call to have created under the key by then), the second call returns the
\* response of the first, calls the provider for nothing and persists no record,
\* so that exactly one payment record exists for the key.
C8_IdempotentCreation ==
    \A a, b \in Calls :
        ( /\ a \in cp[b].after
          /\ cp[a].key # ""
          /\ cp[b].key = cp[a].key
          /\ SameBody(a, b)
          /\ cp[b].at - cp[a].at <= DefaultTtlMs
          /\ Admissible(b)
          /\ CreatedBefore(b) = { a } )
        => /\ cp[b].pc = "done"
           /\ cp[b].resp = "ok"
           /\ cp[b].cached
           /\ cp[b].result = cp[a].result
           /\ cp[b].urlSent = "" /\ cp[b].pref = "" /\ cp[b].payment = NoRecord
           /\ Cardinality({ i \in 1..Len(payments) :
                              \E c \in cp[b].after \cup { b } :
                                  /\ cp[c].key = cp[a].key
                                  /\ cp[c].payment.id = payments[i].id }) = 1

\* C8 witness: a second call made exactly 24 hours after the first is answered
\* from the cache with the record the first one persisted
C8_Witness ==
    \E a, b \in Calls :
        /\ a \in cp[b].after
        /\ Created(a)
        /\ cp[a].key # "" /\ cp[b].key = cp[a].key
        /\ SameBody(a, b)
        /\ cp[b].at = cp[a].at + DefaultTtlMs
        /\ cp[b].cached
        /\ cp[b].result.payment.id # 0

\* C9: a createPayment call that passes validation and whose provider call
\* succeeds persists exactly one payment record, with status pending and amount
\* the sum of unitPrice x quantity over the items, and returns that record with
\* preferenceId the provider's preference id and checkoutUrl the provider's
\* checkout link; a success URL the caller supplied is the one sent to the provider.
C9_CreatedRecord ==
    \A c \in Calls :
        Created(c)
        => LET mine == { i \in 1..Len(payments) : payments[i].preferenceId = cp[c].pref }
               prefs == { j \in 1..Len(mpPrefs) : mpPrefs[j].id = cp[c].pref }
           IN  /\ Cardinality(mine) = 1
               /\ \A i \in mine :
                     /\ payments[i] = cp[c].result.payment
                     /\ payments[i].status = "pending"
                     /\ payments[i].amount = ItemsSum(cp[c].items, Len(cp[c].items))
               /\ Cardinality(prefs) = 1
               /\ \A j \in prefs :
                     /\ cp[c].result.preferenceId = mpPrefs[j].id
                     /\ cp[c].result.checkoutUrl = InitPoint(mpPrefs[j].id)
                     /\ cp[c].successUrl # "" => mpPrefs[j].success = cp[c].successUrl

\* C9 witness: a call with two items and its own success URL created a payment
C9_Witness ==
    \E c \in Calls :
        /\ Created(c)
        /\ Len(cp[c].items) = 2
        /\ cp[c].successUrl # ""
        /\ cp[c].result.payment.amount = 200

\* C10: if the provider's preference creation fails during createPayment, the call
\* ends with an error, persists no payment record and no marketplace split record
\* and stores nothing under its idempotency key: every record and every cache
\* entry belongs to a call whose preference was created, and a later call with the
\* same key (authenticated and within the rate limit) is answered from the cache
\* only if another call created under that key.
C10_ProviderFailure ==
    /\ \A a \in Calls :
          cp[a].failed
          => /\ cp[a].pc = "done"
             /\ cp[a].resp \notin { "ok", "" }
             /\ cp[a].pref = ""
             /\ cp[a].payment = NoRecord
             /\ \A b \in Calls :
                   ( /\ a \in cp[b].after
                     /\ cp[a].key # "" /\ cp[b].key = cp[a].key
                     /\ Admissible(b)
                     /\ CreatedBefore(b) = {} )
                   => ~cp[b].cached
    /\ \A i \in 1..Len(payments) :
          \E c \in Calls : ~cp[c].failed /\ cp[c].payment = payments[i]
    /\ \A i \in 1..Len(splits) :
          \E c \in Calls : ~cp[c].failed /\ cp[c].payment.id = splits[i].paymentId
    /\ \A k \in DOMAIN store :
          \E c \in Calls : ~cp[c].failed /\ cp[c].key = k /\ cp[c].payment.id # 0

\* C10 witness: after a call failed at the provider, a retry with its key created a payment
C10_Witness ==
    \E a, b \in Calls :
        /\ cp[a].failed
        /\ a \in cp[b].after
        /\ cp[a].key # "" /\ cp[b].key = cp[a].key
        /\ Created(b)
        /\ cp[b].payment.id # 0

\* --------------------------------------------------- signature properties
\* the probe's headers are those the provider sent, both present
ProviderSigned == probe.shape = "signed" /\ probe.xRequestId # Null

\* C11 (as stated): for every secret, data id, request id and timestamp, a signature
\* header whose v1 is the HMAC-SHA256 hex digest of the manifest
\* id:{dataId};request-id:{requestId};ts:{ts}; under that secret verifies as valid,
\* and changing any single character of that v1 value makes verification return
\* false.
C11_SignatureRoundTrip ==
    (probe.kind = "sig" /\ probe.outcome # "none")
    => /\ ProviderSigned => probe.outcome = "true"
       /\ probe.shape = "tampered" => probe.outcome = "false"

\* C12 (as stated): verifyWebhookSignature returns false and never throws for every
\* input with a missing signature header, a missing request-id header, a missing
\* ts or v1 component or an otherwise malformed header, whatever the length of its
\* v1 value; so the webhook endpoint answers every such request with the
\* authentication error.
C12_MalformedReturnsFalse ==
    (probe.kind = "sig" /\ (probe.shape = "malformed" \/ probe.xRequestId = Null))
    => /\ probe.outcome \in { "none", "false" }
       /\ wh[1].pc # "idle" => wh[1].pc = "done" /\ wh[1].resp = "UNAUTHORIZED"

\* ------------------------------------------------------- store properties
\* C13: for every key and value of the idempotency store, get(key) after
\* set(key, value, ttl) returns that value as long as the TTL has not elapsed (no more
\* than ttl milliseconds have passed since the set) and no later set replaced it,
\* and returns absent once the TTL has elapsed; whatever other keys were set or
\* read and whenever the cleanup ran.  The value meant is that of the last set of
\* the key.
C13_GetAfterSet ==
    (probe.kind = "store" /\ probe.got.key # "")
    => LET g == probe.got
       IN  IF g.set.any /\ g.at - g.set.at <= g.set.ttl
           THEN g.result = g.set.value
           ELSE g.result = Null

\* C13 witness: a get made exactly ttl milliseconds after the set returned the value
C13_Witness ==
    /\ probe.kind = "store"
    /\ probe.got.key # ""
    /\ probe.got.set.any
    /\ probe.got.set.ttl > 0
    /\ probe.got.at = probe.got.set.at + probe.got.set.ttl
    /\ probe.got.result = probe.got.set.value

\* C14: for every rate limiter key, limit N and window W, counting from the call that
\* opens a window, calls 1..N made within W are allowed, every further call within
\* the same window is rejected, and the first call made after W has elapsed (more
\* than W milliseconds after the opening call) is allowed again and opens a new
\* window; whatever the other keys do and whenever the cleanup ran.
C14_WindowedLimit ==
    (probe.kind = "rate" /\ probe.last.key # "")
    => probe.last.allowed = (probe.last.n <= probe.limit)

\* C14 witness: after a window in which calls were rejected, the first call of the
\* next window was allowed
C14_Witness ==
    /\ probe.kind = "rate"
    /\ probe.last.key # ""
    /\ probe.last.n = 1
    /\ probe.last.before > probe.limit
    /\ probe.last.allowed
\* ------------------------------------------------- reconciliation properties
\* the notification has no type, a type that is no recognized topic, or no data.id
Unrecognized(type, dataId) == type = "" \/ ~isValidWebhookTopic(type) \/ dataId = ""

\* C15: a notification whose type is missing or not a recognized topic, or that
\* carries no data.id, is answered (once past the rate limit) with the success
\* acknowledgment in the step that receives it, and that step fetches nothing from
\* the provider, changes no local record, invokes no callback and sets no
\* deduplication mark.
C15_UnrecognizedAcknowledged ==
    [][ \A d \in Deliveries :
          ( /\ wh[d].pc = "idle"
            /\ wh'[d].pc # "idle"
            /\ Unrecognized(wh'[d].type, wh'[d].dataId)
            /\ wh'[d].resp # "TOO_MANY_REQUESTS" )
          => /\ wh'[d].pc = "done"
             /\ wh'[d].resp = Ack
             /\ ~wh'[d].marked /\ ~wh'[d].fetchOk /\ ~wh'[d].updated /\ ~wh'[d].called
             /\ UNCHANGED << store, mpCalls, payments, splits, customers, subscriptions,
                             mpPayments, mpPreapprovals >> ]_vars

\* C15 witness: with a payment record in the table, notifications of an unknown
\* type were acknowledged and the record is still pending
C15_Witness ==
    /\ Len(payments) = 1
    /\ payments[1].status = "pending"
    /\ store = << >>
    /\ mpCalls.paymentGet = 0
    /\ \A d \in Deliveries :
          /\ wh[d].pc = "done"
          /\ wh[d].type = "authorized_payment"
          /\ wh[d].resp = Ack

\* some local record correlates with what delivery d fetched: a payment by the
\* handler's key, a subscription by its preapproval id, a recurring charge by the
\* subscription id in its external reference
CorrelatesSome(d) ==
    IF wh[d].type = "payment"
    THEN IF variant = "server"
         THEN \E i \in 1..Len(payments) : payments[i].mercadoPagoPaymentId = wh[d].dataId
         ELSE \E i \in 1..Len(payments) :
                    payments[i].externalReference = wh[d].mp.external_reference
    ELSE IF wh[d].type = "subscription_authorized_payment"
    THEN \E i \in 1..Len(subscriptions) :
              subscriptions[i].id = wh[d].mp.external_reference
    ELSE \E i \in 1..Len(subscriptions) :
              subscriptions[i].mercadoPagoSubscriptionId = wh[d].dataId

\* C16: no step of a webhook delivery creates (or removes) a payment or subscription
\* record, and when the resource a delivery fetched correlates to no local record,
\* the step that looks the record up answers the success acknowledgment, leaves
\* every table as it is and invokes no callback.
C16_NoRecordFromWebhook ==
    [][ /\ wh' # wh
           => /\ Len(payments') = Len(payments)
              /\ RecordIds(payments') = RecordIds(payments)
              /\ Len(subscriptions') = Len(subscriptions)
              /\ RecordIds(subscriptions') = RecordIds(subscriptions)
              /\ UNCHANGED << splits, customers >>
        /\ \A d \in Deliveries :
              ( /\ wh[d].pc \in { "findOne", "subFind", "authFind" }
                /\ wh'[d] # wh[d]
                /\ ~CorrelatesSome(d) )
              => /\ wh'[d].pc = "done"
                 /\ wh'[d].resp = Ack
                 /\ ~wh'[d].updated /\ ~wh'[d].called
                 /\ UNCHANGED << payments, subscriptions, splits, customers >> ]_vars

\* C16 witness: a recurring charge carrying another integration's reference was
\* acknowledged without a callback while the user's subscription and payment exist
C16_Witness ==
    \E d \in Deliveries :
        /\ wh[d].pc = "done"
        /\ wh[d].type = "subscription_authorized_payment"
        /\ wh[d].fetchOk
        /\ wh[d].mp.external_reference = ForeignRef
        /\ options.onSubscriptionPayment
        /\ wh[d].resp = Ack /\ ~wh[d].called
        /\ Len(subscriptions) = 1
        /\ Len(payments) = 1

\* C17: when a callback (onPaymentUpdate, onSubscriptionUpdate, onSubscriptionPayment)
\* throws while a notification is processed, the webhook still answers the success
\* acknowledgment, and the update made before the callback stays applied: the record
\* shows the status the delivery fetched.
C17_CallbackThrowContained ==
    \A d \in Deliveries :
        (wh[d].called /\ wh[d].threw)
        => /\ wh[d].pc = "done"
           /\ wh[d].resp = Ack
           /\ wh[d].type = "payment"
                => /\ wh[d].updated
                   /\ wh[d].mp.status # ""
                        => FindPaymentBy(payments, "id", wh[d].existing.id).status
                               = wh[d].mp.status
           /\ wh[d].type \in { "subscription_preapproval", "subscription_preapproval_plan" }
                => /\ wh[d].updated
                   /\ FindSubscriptionBy(subscriptions, "id", wh[d].sub.id).status
                          = wh[d].pre.status

\* C17 witness: onSubscriptionUpdate threw, the delivery was acknowledged and the
\* subscription shows the authorized status the delivery fetched
C17_Witness ==
    \E d \in Deliveries :
        /\ wh[d].called /\ wh[d].threw
        /\ wh[d].type = "subscription_preapproval"
        /\ wh[d].resp = Ack
        /\ wh[d].pre.status = "authorized"
        /\ \E i \in 1..Len(subscriptions) :
              /\ subscriptions[i].id = wh[d].sub.id
              /\ subscriptions[i].status = "authorized"

\* the createSubscription call was answered with a persisted subscription
Subscribed(c) == csub[c].pc = "done" /\ csub[c].resp = "ok"

\* C20: createSubscription, with a plan id or with reason and autoRecurring, sends
\* the provider an external_reference equal to the id of the subscription record it
\* then persists; so a subscription_authorized_payment notification that passes the
\* deduplication check and whose fetched payment carries that external_reference
\* finds the subscription, and onSubscriptionPayment (when configured) is invoked
\* with it, once across the notification's deliveries.
C20_ExternalReferenceIsSubscriptionId ==
    /\ \A c \in SubCalls :
          /\ csub[c].pc \in { "subPersist", "done" } /\ csub[c].pre # ""
                => mpPreapprovals[csub[c].pre].external_reference = csub[c].subscriptionId
          /\ Subscribed(c)
                => /\ csub[c].planId # "" \/ (csub[c].reason # "" /\ csub[c].autoRecurring)
                   /\ csub[c].subscription.id
                          = mpPreapprovals[csub[c].pre].external_reference
                   /\ \E i \in 1..Len(subscriptions) :
                          /\ subscriptions[i].id = csub[c].subscription.id
                          /\ subscriptions[i].userId = csub[c].user
                          /\ subscriptions[i].mercadoPagoSubscriptionId = csub[c].pre
    /\ \A d \in Deliveries, c \in SubCalls :
          ( /\ Subscribed(c)
            /\ wh[d].type = "subscription_authorized_payment"
            /\ wh[d].marked
            /\ wh[d].pc = "done"
            /\ wh[d].fetchOk
            /\ wh[d].mp.external_reference
                   = mpPreapprovals[csub[c].pre].external_reference )
          => /\ wh[d].sub.id = csub[c].subscription.id
             /\ wh[d].resp = Ack
             /\ options.onSubscriptionPayment
                  => /\ wh[d].called
                     /\ wh[d].cbSub.id = csub[c].subscription.id
                     /\ wh[d].cbSub.userId = csub[c].user
                     /\ Callbacks(Deliveries) = 1

\* C20 witness: a subscription created from reason and autoRecurring, a charge
\* carrying its id, onSubscriptionPayment invoked with it, the redelivery acknowledged
C20_Witness ==
    \E d, e \in Deliveries, c \in SubCalls :
        /\ Subscribed(c)
        /\ csub[c].planId = "" /\ csub[c].autoRecurring
        /\ Redelivers(d, e)
        /\ wh[d].type = "subscription_authorized_payment"
        /\ wh[d].pc = "done" /\ wh[e].pc = "done"
        /\ wh[d].called
        /\ wh[d].cbSub = csub[c].subscription
        /\ wh[d].mp.external_reference = csub[c].subscription.id
        /\ ~wh[e].called /\ wh[e].resp = Ack

\* C18 (as stated): the local record passed to the status-change callback carries the
\* state after the update: its status equals the status just fetched from the
\* provider and written to the store.
C18_CallbackGetsUpdatedRecord ==
    \A d \in Deliveries :
        (wh[d].called /\ wh[d].type = "payment")
        => /\ wh[d].cbPayment.status = wh[d].cbStatus
           /\ wh[d].cbPayment.status
                  = FindPaymentBy(payments, "id", wh[d].cbPayment.id).status

\* the payment record createPayment call c persisted
CreatedRecord(c) == FindPaymentBy(payments, "id", cp[c].payment.id)

\* C19 (as stated): for every payment record created by createPayment, a later
\* payment notification with a valid signature, whose provider fetch returns status
\* approved, an amount equal to the record's amount and the reference given to the
\* provider at creation (none, when createPayment sent none), is correlated to that
\* record: once the delivery is answered the record's status is approved and
\* onPaymentUpdate, when configured, was invoked once (by this delivery and by no
\* redelivery within 24 hours); the record shows approved until a later delivery
\* updates it.  Read for a delivery that passes the rate limit and the
\* deduplication check.
C19_CreatedPaymentCorrelates ==
    \A d \in Deliveries, c \in Calls :
        ( /\ cp[c].pc = "done" /\ cp[c].resp = "ok" /\ ~cp[c].cached
          /\ wh[d].type = "payment"
          /\ wh[d].marked
          /\ wh[d].pc = "done"
          /\ wh[d].fetchOk
          /\ wh[d].mp.status = "approved"
          /\ wh[d].mp.transaction_amount = cp[c].payment.amount
          /\ wh[d].mp.external_reference = cp[c].ref )
        => /\ wh[d].existing.id = cp[c].payment.id
           /\ wh[d].updated
           /\ (\A e \in Deliveries : e > d => ~wh[e].updated)
                => CreatedRecord(c).status = "approved"
           /\ options.onPaymentUpdate
                => /\ wh[d].called
                   /\ \A e \in Deliveries :
                         (Redelivers(d, e) /\ Within24h(d, e)) => ~wh[e].called

\* ---------------------------------------------------- lifecycle properties
SubscriptionTopics == { "subscription_preapproval", "subscription_preapproval_plan" }

\* C21: a subscription record is created with status pending, and afterwards its
\* status changes only in the step in which a subscription notification that passed
\* the signature check (verified against the secret, or no secret is configured and
\* the check is skipped) writes the status it fetched, or in the step in which a
\* cancelSubscription call of the record's owner writes cancelled; no other step
\* changes a subscription's status, and none removes a subscription.
C21_StatusChangesOnlyByWebhookOrCancel ==
    [][ /\ Len(subscriptions') >= Len(subscriptions)
        /\ \A i \in 1..Len(subscriptions') :
              i > Len(subscriptions) => subscriptions'[i].status = "pending"
        /\ \A i \in 1..Len(subscriptions) :
              /\ subscriptions'[i].id = subscriptions[i].id
              /\ subscriptions'[i].status # subscriptions[i].status
                   => \/ \E d \in Deliveries :
                           /\ wh[d].pc = "subUpdate" /\ wh'[d].pc # "subUpdate"
                           /\ wh[d].type \in SubscriptionTopics
                           /\ SignaturePassed(d)
                           /\ ~wh[d].sigThrew
                           /\ wh[d].sub.id = subscriptions[i].id
                           /\ subscriptions'[i].status = wh[d].pre.status
                      \/ \E k \in CancelCalls :
                           /\ cancel[k].pc = "persist" /\ cancel'[k].pc = "done"
                           /\ cancel[k].user = subscriptions[i].userId
                           /\ cancel[k].subscriptionId = subscriptions[i].id
                           /\ subscriptions'[i].status = "cancelled" ]_vars

\* C21 witness: with a secret configured, a signed notification moved the
\* subscription to authorized, a badly signed redelivery was rejected, and the
\* owner's cancelSubscription then cancelled it
C21_Witness ==
    \E d, e \in Deliveries :
        /\ options.webhookSecret
        /\ Redelivers(d, e)
        /\ wh[d].sig /\ wh[d].updated /\ wh[d].pre.status = "authorized"
        /\ ~wh[e].sig /\ wh[e].resp = "UNAUTHORIZED"
        /\ cancel[1].pc = "done" /\ cancel[1].resp = "ok" /\ cancel[1].user = "u1"
        /\ Len(subscriptions) = 1
        /\ subscriptions[1].status = "cancelled"

\* ------------------------------------------------------ creation properties
\* the commission a marketplace request asks for: the fixed amount, or else the
\* percentage of the total
Commission(c) ==
    IF cp[c].marketplace.applicationFee # 0 THEN cp[c].marketplace.applicationFee
    ELSE (ItemsSum(cp[c].items, Len(cp[c].items))
             * cp[c].marketplace.applicationFeePercentage) \div 100

\* the answers that tell the client its request was refused, and the answers a
\* failed provider call ends a request with
ClientErrors == { "UNAUTHORIZED", "TOO_MANY_REQUESTS", "BAD_REQUEST", "FORBIDDEN" }

ProviderFailures == { handleMercadoPagoError(st) : st \in ProviderErrors }

\* C22: every persisted marketplace split record belongs to a persisted payment and
\* has a commission of at least 0 and strictly less than the payment's amount, and
\* netAmount equal to the amount minus the commission; a createPayment request with
\* a marketplace whose commission is greater than or equal to the total is never
\* answered with success (it ends with a client error, unless the provider's
\* customer creation failed first) and persists neither a payment nor a split.
C22_CommissionBelowTotal ==
    /\ \A i \in 1..Len(splits) :
          LET payment == FindPaymentBy(payments, "id", splits[i].paymentId)
          IN  /\ payment.id # 0
              /\ splits[i].applicationFeeAmount >= 0
              /\ splits[i].applicationFeeAmount < payment.amount
              /\ splits[i].netAmount = payment.amount - splits[i].applicationFeeAmount
    /\ \A c \in Calls :
          ( /\ cp[c].pc # "idle"
            /\ cp[c].marketplace.on
            /\ Commission(c) >= ItemsSum(cp[c].items, Len(cp[c].items)) )
          => /\ cp[c].pc \in { "custFind", "custCreate", "custPersist", "done" }
             /\ cp[c].payment.id = 0
             /\ cp[c].pref = ""
             /\ cp[c].pc = "done" => cp[c].resp \in ClientErrors \cup ProviderFailures
    /\ Len(splits) = Cardinality({ c \in Calls : Created(c) /\ cp[c].marketplace.on })
    /\ Len(payments) >= Len(splits)

\* C22 witness: a request with a fixed commission of 10 on a total of 200 persisted
\* its split with net amount 190, and a request whose commission is the whole total
\* was answered BAD_REQUEST
C22_Witness ==
    \E a, b \in Calls :
        /\ Created(a) /\ cp[a].marketplace = FixedFee
        /\ \E i \in 1..Len(splits) :
              /\ splits[i].paymentId = cp[a].payment.id
              /\ splits[i].applicationFeeAmount = 10
              /\ splits[i].netAmount = 190
        /\ cp[b].pc = "done" /\ cp[b].marketplace = WholeFee
        /\ cp[b].resp = "BAD_REQUEST"
        /\ Len(payments) = 1

\* the vocabulary of a payment record's status
PaymentStatuses ==
    { "pending", "approved", "authorized", "rejected", "cancelled", "refunded",
      "charged_back" }

\* C23 (as stated): after any sequence of creation calls and webhook deliveries,
\* every payment record's status is one of pending, approved, authorized, rejected,
\* cancelled, refunded, charged_back, whatever status the provider's fetch returns.
C23_StatusInVocabulary ==
    \A i \in 1..Len(payments) : payments[i].status \in PaymentStatuses

\* ------------------------------------------------------ metadata properties
RECURSIVE HasPollutingKey(_)
\* some object in the value, at whatever depth, has a polluting key
HasPollutingKey(value) ==
    /\ value.kind \in { "object", "array" }
    /\ \E j \in 1..Len(value.items) :
          \/ value.kind = "object" /\ value.items[j].key \in PollutingKeys
          \/ HasPollutingKey(value.items[j])

RECURSIVE Sanitized(_)
\* what the claim says of an object: polluting keys gone at every depth, long
\* strings cut to their first 5000 characters, nested objects treated alike, every
\* other scalar and every array as in the input
Sanitized(object) ==
    LET kept == SelectSeq(object.items, LAMBDA e : e.key \notin PollutingKeys)
    IN  [ object EXCEPT !.items = [ j \in 1..Len(kept) |->
            IF kept[j].kind = "string" /\ kept[j].len > MaxStringLength
            THEN [kept[j] EXCEPT !.len = MaxStringLength]
            ELSE IF kept[j].kind = "object" THEN Sanitized(kept[j])
            ELSE kept[j] ] ]

IsSubdomain(hostname, baseDomain) == EndsWith(hostname, "." \o baseDomain)

\* the hostname equals an allow-list entry or is a subdomain of a wildcard entry's base
TrustedHost(hostname, allowedDomains) ==
    \E domain \in allowedDomains :
        IF IsWildcard(domain) THEN IsSubdomain(hostname, BaseDomain(domain))
        ELSE hostname = domain

\* the call gave a back URL whose hostname is not trusted
GaveUntrustedUrl(c) ==
    \E url \in GivenUrls(cp[c]) : ~TrustedHost(UrlHost(url), TrustedOrigins)

\* the answers of createPayment that precede URL validation
EarlierAnswers == { "UNAUTHORIZED", "TOO_MANY_REQUESTS" }

\* C25 (as stated): when trusted origins are configured, a createPayment call that
\* gives a success, failure or pending URL whose hostname is neither equal to an
\* allow-list entry nor a subdomain of a wildcard entry's base domain is rejected
\* with FORBIDDEN (unless the session or the rate limit rejected it before): it
\* never gets past URL validation, no provider preference is created for it and
\* nothing is persisted for it.
C25_UntrustedUrlRejected ==
    \A c \in Calls :
        ( /\ variant = "server"
          /\ options.trustedOrigins
          /\ cp[c].pc # "idle"
          /\ GaveUntrustedUrl(c) )
        => /\ cp[c].pc = "done"
           /\ cp[c].resp \in { "FORBIDDEN" } \cup EarlierAnswers
           /\ cp[c].pref = ""
           /\ cp[c].payment.id = 0

\* ------------------------------------------------------- customer properties
\* the customer records of that user
CustomersOf(userId) == { i \in 1..Len(customers) : customers[i].userId = userId }

\* the users that called createPayment or createSubscription
Callers == { cp[c].user : c \in Calls } \cup { csub[c].user : c \in SubCalls }

\* C26 (as stated): after any sequence and interleaving of createPayment and
\* createSubscription calls, at most one customer record exists per user id, and
\* the provider's customer-creation call has been made at most once per user (so
\* no more often than there are users that called).
C26_OneCustomerPerUser ==
    /\ \A userId \in Callers : Cardinality(CustomersOf(userId)) <= 1
    /\ mpCalls.customerCreate <= Cardinality(Callers \ { "" })

\* ------------------------------------------------------ reference properties
\* the preference the provider holds under that id
PreferenceOf(prefId) ==
    mpPrefs[CHOOSE i \in 1..Len(mpPrefs) : mpPrefs[i].id = prefId]

\* C27: in the plugin whose payment records carry an externalReference (part_005),
\* a call's reference is generated before its provider call, is the
\* external_reference the provider received with the call's preference, is the
\* externalReference of the record the call persisted at every later time (webhook
\* updates included), and no two payment records share an externalReference.
C27_ExternalReferenceStable ==
    variant = "index" =>
       /\ \A c \in Calls :
             /\ cp[c].pc \in { "prefCreate", "payPersist" } => cp[c].ref # 0
             /\ cp[c].pref # "" =>
                   /\ cp[c].ref # 0
                   /\ PreferenceOf(cp[c].pref).external_reference = cp[c].ref
             /\ Created(c) =>
                   /\ CreatedRecord(c).id # 0
                   /\ CreatedRecord(c).externalReference = cp[c].ref
                   /\ CreatedRecord(c).preferenceId = cp[c].pref
       /\ \A i, j \in 1..Len(payments) :
             /\ payments[i].externalReference # 0
             /\ i # j => payments[i].externalReference # payments[j].externalReference

\* C27 witness: both calls created a record, under different references, and a
\* webhook delivery updated one of the records, which still carries its reference
C27_Witness ==
    /\ variant = "index"
    /\ \A c \in Calls : Created(c)
    /\ cp[1].ref # cp[2].ref
    /\ \E d \in Deliveries, c \in Calls :
          /\ wh[d].updated
          /\ wh[d].existing.id = cp[c].payment.id
          /\ CreatedRecord(c).status \in { "approved", "refunded" }
          /\ CreatedRecord(c).updatedAt >= cp[c].payment.createdAt
          /\ CreatedRecord(c).externalReference = cp[c].ref

\* ---------------------------------------------------- creation limit properties
\* the place of the user's next call in the window it falls in
NextInWindow(user) ==
    IF WindowOver(probe.windows[user], CreateWindowMs, now) THEN 1
    ELSE probe.windows[user].n + 1

\* C28: a user's 11th (and any later) createPayment call within one 60-second
\* window is answered TOO_MANY_REQUESTS in the stretch it arrives in, before any
\* validation, provider call or persistence; a user's first ten calls of a window
\* are never answered TOO_MANY_REQUESTS, whatever calls other users have made.
C28_EleventhCallRejected ==
    [][ \A c \in Calls :
          ( /\ probe.kind = "limit"
            /\ cp[c].pc = "idle"
            /\ cp'[c].pc # "idle" )
          => IF NextInWindow(cp'[c].user) > CreateMaxAttempts
             THEN /\ cp'[c].pc = "done"
                  /\ cp'[c].resp = "TOO_MANY_REQUESTS"
                  /\ store' = store
                  /\ UNCHANGED << nextId, payments, splits, customers, mpPrefs, mpCalls >>
             ELSE cp'[c].resp # "TOO_MANY_REQUESTS" ]_vars

\* C28 witness: u1's 11th call of a window, made with a valid body, was answered
\* TOO_MANY_REQUESTS, and a call u2 made no earlier was answered with success
C28_Witness ==
    /\ probe.kind = "limit"
    /\ probe.windows["u1"].n = CreateMaxAttempts + 1
    /\ \E a, b \in Calls :
          /\ cp[a].user = "u1" /\ cp[a].key = ""
          /\ cp[a].pc = "done" /\ cp[a].resp = "TOO_MANY_REQUESTS"
          /\ cp[b].user = "u2" /\ cp[b].at >= cp[a].at
          /\ cp[b].pc = "done" /\ cp[b].resp = "ok"

\* ------------------------------------------------------- amount properties
\* the request's total is not greater than 0 or is greater than 999,999,999
TotalOutOfRange(items) ==
    \/ ExceedsCeiling(items)
    \/ WholeUnits(items) + LeftOver(items) <= 0

UnsupportedCurrency(items) ==
    \E i \in 1..Len(items) :
        items[i].currencyId \notin { "ARS", "BRL", "CLP", "MXN", "COP", "PEN", "UYU" }

Overlapping(a, b) ==
    /\ a # b
    /\ cp[a].pc # "idle" /\ cp[b].pc # "idle"
    /\ cp[a].key # "" /\ cp[a].key = cp[b].key
    /\ validateIdempotencyKey(cp[a].key)
    /\ cp[a].user = cp[b].user /\ cp[a].items = cp[b].items
    /\ a \notin cp[b].after /\ b \notin cp[a].after

\* C30 (as stated): of two createPayment calls with the same valid idempotency key
\* that overlap in time, in every interleaving of their suspension points at most
\* one gets a provider preference and at most one persists a payment record, and
\* once both are answered exactly one preference and one record exist for them.
C30_OverlappingCreateOnce ==
    \A a, b \in Calls :
        Overlapping(a, b)
        => /\ ~(cp[a].pref # "" /\ cp[b].pref # "")
           /\ ~(cp[a].payment.id # 0 /\ cp[b].payment.id # 0)
           /\ (Created(a) \/ cp[a].cached) /\ (Created(b) \/ cp[b].cached)
                 => Cardinality({ i \in 1..Len(payments) :
                        payments[i].id \in { cp[a].payment.id, cp[b].payment.id } }) = 1

\* ---------------------------------------------------- cached response properties
\* C31 (as stated): a createPayment call returns a cached response only if that
\* response was produced by an earlier call of the same user: the payment record
\* in a cached response is a record of the caller.
C31_CachedResponseOfSameUser ==
    \A c \in Calls :
        (cp[c].pc = "done" /\ cp[c].cached)
        => cp[c].result.payment.userId = cp[c].user

\* ------------------------------------------------------- key domain properties
\* the delivery was answered as a duplicate: acknowledged, past topic validation,
\* without setting the mark itself
Deduplicated(d) ==
    /\ wh[d].pc = "done" /\ wh[d].resp = Ack
    /\ ~TopicRejected(variant, wh[d].type, wh[d].dataId)
    /\ ~wh[d].marked

\* C32: no key validateIdempotencyKey accepts equals a deduplication key of a
\* webhook handler (no deduplication key is accepted), so the store keeps marks
\* under deduplication keys only and responses under creation keys only: a
\* creation call is never answered with a mark from the cache, and a delivery is
\* answered as a duplicate only when another delivery of the same notification
\* set the mark.
C32_KeyDomainsDisjoint ==
    /\ \A key \in KeyCandidates :
          validateIdempotencyKey(key) => key \notin WebhookKeys
    /\ \A key \in DOMAIN store :
          /\ store[key].result = Processed <=> key \in WebhookKeys
          /\ store[key].result # Processed => validateIdempotencyKey(key)
    /\ \A c \in Calls :
          (cp[c].pc = "done" /\ cp[c].cached)
          => cp[c].result # Processed /\ cp[c].result.payment.id # 0
    /\ \A d \in Deliveries :
          Deduplicated(d)
          => \E e \in Deliveries \ { d } :
                /\ wh[e].marked
                /\ wh[e].type = wh[d].type /\ wh[e].dataId = wh[d].dataId

\* C32 witness: a creation call whose key is spelled as the deduplication key of
\* the payment notification p1 was refused, a call with an accepted key stored its
\* response, a delivery of that notification set the mark and a redelivery was
\* answered as a duplicate
C32_Witness ==
    /\ \E a, b \in Calls :
          /\ cp[a].pc = "done" /\ cp[a].resp = "BAD_REQUEST"
          /\ cp[a].key = WebhookKey(variant, "p1", "payment")
          /\ Created(b) /\ cp[b].key \in DOMAIN store
          /\ store[cp[b].key].result = cp[b].result
    /\ \E d, e \in Deliveries :
          /\ wh[e].marked /\ wh[e].type = "payment" /\ wh[e].dataId = "p1"
          /\ Deduplicated(d) /\ wh[d].type = "payment" /\ wh[d].dataId = "p1"

\* ------------------------------------------------------------ frame properties
\* the fields of a payment record no notification may change
Frame(r) ==
    << r.id, r.userId, r.amount, r.currency, r.preferenceId, r.externalReference,
       r.createdAt >>

\* the delivery's adapter.update resolves in this step
UpdateResolves(d) == wh[d].pc = "update" /\ wh'[d].pc # "update"

\* C33: processing a payment notification changes only the status, the provider
\* payment id and updatedAt (and the provider's detail fields) of the one correlated
\* payment record: in every step the records that exist keep their id, userId,
\* amount, currency, preferenceId, externalReference and createdAt; a record changes
\* only in the step in which the update of a payment notification correlated to it
\* resolves; and that step adds no record and leaves the splits, the customers and
\* the subscriptions as they were.
C33_NotificationFrame ==
    [][ /\ Len(payments') >= Len(payments)
        /\ \A i \in 1..Len(payments) :
              /\ Frame(payments'[i]) = Frame(payments[i])
              /\ payments'[i] # payments[i]
                    => \E d \in Deliveries :
                          /\ UpdateResolves(d)
                          /\ wh[d].type = "payment"
                          /\ wh[d].existing.id = payments[i].id
        /\ (\E d \in Deliveries : UpdateResolves(d))
              => /\ Len(payments') = Len(payments)
                 /\ UNCHANGED << splits, customers, subscriptions, nextId >> ]_vars

\* C33 witness: of two payment records, the delivery updated the one it was
\* correlated to, which shows the provider's status, and the other is still pending
C33_Witness ==
    /\ Len(payments) = 2
    /\ \E d \in Deliveries, i, j \in 1..2 :
          /\ wh[d].updated
          /\ payments[i].id = wh[d].existing.id
          /\ payments[i].status \in { "approved", "refunded" }
          /\ Frame(payments[i]) = Frame(wh[d].existing)
          /\ j # i
          /\ payments[j].status = "pending"

\* ----------------------------------------------------------- access properties
\* the owner of the subscription with that id ("": there is none)
SubscriptionOwner(id) == FindSubscriptionBy(subscriptions, "id", id).userId

\* C34: getPayment, listPayments and listSubscriptions return only records whose
\* userId is the caller's, and cancelSubscription goes on to the provider and to
\* the update only for a subscription of the caller; for the id of a record owned
\* by another user getPayment and cancelSubscription answer NOT_FOUND, and a
\* cancelSubscription that is not the owner's makes no provider call and changes
\* nothing: the provider's preapproval and the local record are cancelled only by
\* a call of the owner.
C34_OwnRecordsOnly ==
    /\ probe.kind = "read" =>
          /\ \A i \in 1..Len(probe.last.records) :
                probe.last.records[i].userId = probe.last.user
          /\ probe.last.resp = "ok" => probe.last.user # ""
          /\ probe.last.endpoint = "getPayment" =>
                /\ probe.last.resp = "ok" =>
                      /\ Len(probe.last.records) = 1
                      /\ probe.last.records[1].id = probe.last.id
                /\ ( /\ probe.last.user # ""
                     /\ FindPaymentBy(payments, "id", probe.last.id).userId
                            \notin { "", probe.last.user } )
                   => probe.last.resp = "NOT_FOUND"
    /\ \A k \in CancelCalls :
          /\ cancel[k].pc \in { "mpUpdate", "persist" } \/ cancel[k].resp = "ok"
                => /\ cancel[k].subscription.userId = cancel[k].user
                   /\ cancel[k].subscription.id = cancel[k].subscriptionId
          /\ ( /\ cancel[k].pc # "idle"
               /\ cancel[k].user # ""
               /\ SubscriptionOwner(cancel[k].subscriptionId) \notin { "", cancel[k].user } )
             => /\ cancel[k].pc \in { "find", "done" }
                /\ cancel[k].pc = "done" => cancel[k].resp = "NOT_FOUND"
    /\ \A i \in 1..Len(subscriptions) :
          subscriptions[i].status = "cancelled"
          => \E k \in CancelCalls :
                /\ cancel[k].user = subscriptions[i].userId
                /\ cancel[k].subscriptionId = subscriptions[i].id
                /\ cancel[k].resp = "ok"
    /\ \A pre \in DOMAIN mpPreapprovals :
          (mpPreapprovals[pre].exists /\ mpPreapprovals[pre].status = "cancelled")
          => \E k \in CancelCalls :
                /\ cancel[k].subscription.mercadoPagoSubscriptionId = pre
                /\ cancel[k].subscription.userId = cancel[k].user
                /\ cancel[k].pc = "persist" \/ cancel[k].resp = "ok"

\* C34 witness: with payments of both users persisted and u1's subscription
\* created, u2's cancelSubscription of u1's subscription was answered NOT_FOUND, the
\* subscription is not cancelled, and u2's getPayment of u1's payment was answered
\* NOT_FOUND
C34_Witness ==
    /\ probe.kind = "read"
    /\ Len(payments) = 2
    /\ probe.last.endpoint = "getPayment" /\ probe.last.user = "u2"
    /\ FindPaymentBy(payments, "id", probe.last.id).userId = "u1"
    /\ probe.last.resp = "NOT_FOUND"
    /\ \E k \in CancelCalls :
          /\ cancel[k].user = "u2" /\ cancel[k].resp = "NOT_FOUND"
          /\ SubscriptionOwner(cancel[k].subscriptionId) = "u1"
          /\ FindSubscriptionBy(subscriptions, "id", cancel[k].subscriptionId).status
                # "cancelled"

\* ----------------------------------------------------- cancellation properties
\* the provider's preapproval of a subscription record is cancelled
ProviderCancelled(sub) ==
    /\ sub.mercadoPagoSubscriptionId \in DOMAIN mpPreapprovals
    /\ mpPreapprovals[sub.mercadoPagoSubscriptionId].status = "cancelled"

\* C35: cancelSubscription sets the local subscription's status to cancelled only
\* after the provider has accepted the cancellation: a local record is cancelled
\* only when the provider's preapproval is, and a call answered with success left
\* both cancelled; if the provider call fails, the call fails and the local record
\* is as the call found it.
C35_CancelAfterProvider ==
    /\ \A i \in 1..Len(subscriptions) :
          subscriptions[i].status = "cancelled" => ProviderCancelled(subscriptions[i])
    /\ \A k \in CancelCalls :
          LET sub == FindSubscriptionBy(subscriptions, "id", cancel[k].subscriptionId)
          IN  /\ cancel[k].pc = "persist" => ProviderCancelled(cancel[k].subscription)
              /\ (cancel[k].pc = "done" /\ cancel[k].resp = "ok")
                    => sub.status = "cancelled" /\ ProviderCancelled(sub)
              /\ (cancel[k].pc = "done" /\ cancel[k].resp = Unhandled)
                    => /\ sub = cancel[k].subscription
                       /\ sub.status # "cancelled"
                       /\ ~ProviderCancelled(sub)

\* C35 witness: the owner's cancelSubscription found the subscription, the provider
\* call failed, the call was answered with the error and the record is not cancelled
C35_Witness ==
    \E k \in CancelCalls :
        /\ cancel[k].pc = "done" /\ cancel[k].resp = Unhandled
        /\ cancel[k].subscription.id # 0
        /\ cancel[k].subscription.userId = cancel[k].user
        /\ FindSubscriptionBy(subscriptions, "id", cancel[k].subscriptionId).status
              # "cancelled"

\* ------------------------------------------------------ webhook limit properties
\* the request of delivery d is handled up to its first await in this step
ReceivedNow(d) == wh[d].pc = "idle" /\ wh'[d].pc # "idle"

\* the limiter's window of the webhook requests is full / has run out
WindowFull ==
    /\ WebhookRateKey \in DOMAIN attempts
    /\ attempts[WebhookRateKey].count >= WebhookMaxAttempts

WindowElapsed ==
    WebhookRateKey \in DOMAIN attempts => now > attempts[WebhookRateKey].resetAt

\* an earlier request of the same notification was refused by the limiter / was
\* marked as processed
RefusedBefore(d) ==
    \E e \in Deliveries :
        /\ wh[e].resp = "TOO_MANY_REQUESTS"
        /\ wh[e].type = wh'[d].type /\ wh[e].dataId = wh'[d].dataId

MarkedBefore(d) ==
    \E e \in Deliveries :
        /\ wh[e].marked
        /\ wh[e].type = wh'[d].type /\ wh[e].dataId = wh'[d].dataId

\* C36: a webhook request is answered with TOO_MANY_REQUESTS only when 1000 requests
\* were counted in the running window, and then it is over at once: its notification
\* is not marked as processed, nothing is fetched and no record is touched; the
\* redelivery of a refused notification after the window has run out is not refused:
\* it is marked and the payment is fetched (or, when another delivery of it was
\* processed meanwhile, acknowledged as a duplicate).
C36_RefusedThenRedelivered ==
    [][ \A d \in Deliveries :
          ReceivedNow(d) =>
            /\ wh'[d].resp = "TOO_MANY_REQUESTS" =>
                  /\ WindowFull /\ ~WindowElapsed
                  /\ wh'[d].pc = "done" /\ ~wh'[d].marked /\ ~wh'[d].fetchOk
                  /\ store' = store /\ mpCalls' = mpCalls /\ payments' = payments
                  /\ attempts' = attempts
            /\ (RefusedBefore(d) /\ WindowElapsed) =>
                  IF MarkedBefore(d)
                  THEN wh'[d].pc = "done" /\ wh'[d].resp = Ack /\ ~wh'[d].marked
                  ELSE /\ wh'[d].pc = "get" /\ wh'[d].marked
                       /\ WebhookKey(variant, "p1", "payment") \in DOMAIN store'
                       /\ mpCalls'.paymentGet = mpCalls.paymentGet + 1
      ]_vars

\* C36 witness: the notification was refused in a full window, its redelivery came
\* after the window had run out, and the redelivery updated the payment record
C36_Witness ==
    \E d, e \in Deliveries :
        /\ wh[d].pc = "done" /\ wh[d].resp = "TOO_MANY_REQUESTS"
        /\ wh[e].pc = "done" /\ wh[e].resp = Ack /\ wh[e].marked /\ wh[e].updated
        /\ wh[e].dataId = wh[d].dataId /\ wh[e].type = wh[d].type
        /\ wh[e].at > wh[d].at + WebhookWindowMs
        /\ \E i \in 1..Len(payments) : payments[i].status = "approved"

\* ------------------------------------------------------- cached response properties
\* the keys under which the store holds a createPayment response
CreationKeys == { k \in DOMAIN store : store[k].result # Processed }

\* the record was created by adapter.create: the table has it, with the fields no
\* later update changes
Persisted(payment) ==
    \E i \in 1..Len(payments) :
        /\ payments[i].id = payment.id
        /\ payments[i].userId = payment.userId
        /\ payments[i].preferenceId = payment.preferenceId
        /\ payments[i].externalReference = payment.externalReference
        /\ payments[i].amount = payment.amount
        /\ payments[i].currency = payment.currency

\* C37: whenever the idempotency store holds a response under a creation key, the
\* provider has the preference of that response and the payment record contained in
\* it is in the payment table.
C37_CachedResponsePersisted ==
    \A k \in CreationKeys :
        LET result == store[k].result
        IN  /\ result.payment.id # 0
            /\ Persisted(result.payment)
            /\ \E i \in 1..Len(mpPrefs) : mpPrefs[i].id = result.preferenceId
            /\ result.payment.preferenceId = result.preferenceId

\* C37 witness: a createPayment call with an idempotency key was answered, and the
\* store holds its response, whose payment record is in the table
C37_Witness ==
    \E c \in Calls :
        /\ cp[c].pc = "done" /\ cp[c].resp = "ok" /\ ~cp[c].cached
        /\ cp[c].key \in CreationKeys
        /\ store[cp[c].key].result = cp[c].result
        /\ Persisted(cp[c].result.payment)

\* --------------------------------------------------------------- sweep properties
\* C38: the swept store and limiter answer as the unswept ones do: every get and
\* every check made so far returned the same in both, and a get of any key or a
\* check of any key under any limit made now would; a sweep removes only entries
\* the unswept side holds expired.
C38_SweepsUnobservable ==
    probe.kind = "sweep" =>
        /\ \A g \in probe.gets : g.hit = g.unsweptHit /\ g.value = g.unsweptValue
        /\ \A c \in probe.checks : c.allowed = c.unsweptAllowed
        /\ \A k \in StoreKeys :
              /\ IdemHas(store, k, now) = IdemHas(probe.store, k, now)
              /\ IdemHas(store, k, now)
                    => IdemGet(store, k, now) = IdemGet(probe.store, k, now)
        /\ \A k \in DOMAIN probe.store \ DOMAIN store : now > probe.store[k].expiresAt
        /\ DOMAIN store \subseteq DOMAIN probe.store
        /\ \A k \in RateKeys, limit \in RateLimits, w \in RateWindows :
              RateAllowed(attempts, k, limit, w, now)
                  = RateAllowed(probe.attempts, k, limit, w, now)
        /\ \A k \in DOMAIN probe.attempts \ DOMAIN attempts :
              now > probe.attempts[k].resetAt
        /\ \A k \in DOMAIN attempts :
              k \in DOMAIN probe.attempts /\ attempts[k] = probe.attempts[k]

\* C38 witness: both sweeps removed an entry the unswept side still holds, a live
\* entry is in the swept store, and gets have hit and missed and checks have been
\* allowed and refused
C38_Witness ==
    /\ probe.kind = "sweep"
    /\ DOMAIN probe.store \ DOMAIN store # {}
    /\ DOMAIN probe.attempts \ DOMAIN attempts # {}
    /\ \E k \in DOMAIN store : IdemHas(store, k, now)
    /\ \E g, h \in probe.gets : g.hit /\ ~h.hit
    /\ \E c, e \in probe.checks : c.allowed /\ ~e.allowed

====
